---- MODULE Spec2Model ----
(***************************************************************************)
(* Keyper: the Collection cache and index engine, its fetch coalescing     *)
(* layer and query cache, and the live CollectionView, modelled as a state *)
(* machine.  One DB holds two collections, Posts and Users; Posts declares *)
(* the relation author -> Users (foreignKey author_id, backRef posts), so  *)
(* Posts maintains the secondary index author_id.  One CollectionView is   *)
(* attached to Posts.  JavaScript is single threaded: an action is either  *)
(* a synchronous API call, the run of the continuations that are already   *)
(* runnable, or the settling of one Data Source request together with all  *)
(* continuations that become runnable by it.                               *)
(***************************************************************************)
EXTENDS Integers, Sequences, FiniteSets, TLC

VARIABLES index, indexes, queries, pendingRequests, pendingItemRequests,
          requests, tasks, view, obs, cfg, db, pure

vars == <<index, indexes, queries, pendingRequests, pendingItemRequests,
          requests, tasks, view, obs, cfg, db, pure>>

----------------------------------------------------------------------------
(* Bounds and values *)

MaxPk == 2
MaxUser == 2
MaxText == 2

Null == 0
Undef == -1

Colls == {"Posts", "Users"}
PostPks == 1..MaxPk
UserPks == 1..MaxUser
Texts == 1..MaxText

NoEnt == [id |-> Null, text |-> Null, author_id |-> Null, pk |-> Null, ref |-> 0]

NoRaw == [id |-> Null, text |-> Null, author_id |-> Null]

EmptyMap == [x \in {} |-> 0]

MapSet(f, k, v) == [x \in (DOMAIN f) \cup {k} |-> IF x = k THEN v ELSE f[x]]

MapDel(f, k) == [x \in (DOMAIN f) \ {k} |-> f[x]]

MapGet(f, k) == IF k \in DOMAIN f THEN f[k] ELSE Null

Range(s) == {s[i] : i \in DOMAIN s}

MinOf(S) == CHOOSE x \in S : \A y \in S : x <= y

----------------------------------------------------------------------------
(* utils.ts, query.ts *)

\* Array.prototype.splice(idx, del, ...ins) on a 0-based index
Splice(s, idx, del, ins) ==
    LET len == Len(s)
        start == IF idx < 0 THEN (IF len + idx < 0 THEN 0 ELSE len + idx)
                 ELSE (IF idx > len THEN len ELSE idx)
        d == IF del > len - start THEN len - start ELSE del
    IN SubSeq(s, 1, start) \o ins \o SubSeq(s, start + d + 1, len)

\* Array.prototype.indexOf: strict (reference) equality, -1 when absent
IndexOf(s, x) ==
    IF \E i \in DOMAIN s : s[i] = x
    THEN MinOf({i \in DOMAIN s : s[i] = x}) - 1
    ELSE -1

fieldGetter(obj, field) ==
    IF obj = NoEnt THEN Undef
    ELSE IF field \in DOMAIN obj THEN obj[field] ELSE Undef

\* Ordering.fieldComparator's regex /^(.*?)([+-]?)$/ on the expressions used
OrderExprs == {"id", "pk", "text", "text+", "text-"}

exprField(expr) ==
    CASE expr = "text+" -> "text"
      [] expr = "text-" -> "text"
      [] OTHER -> expr

exprSuffix(expr) ==
    CASE expr = "text+" -> "+"
      [] expr = "text-" -> "-"
      [] OTHER -> ""

\* A field holds undefined (Undef), null (Null), a positive number, or a
\* string of one character, written Str(c) for the character of code c
StrBase == 1000

Str(c) == StrBase + c

isString(v) == v >= StrBase

\* String.prototype.toLowerCase on one letter: A..Z are 65..90, a..z 97..122
toLowerCase(v) ==
    IF v - StrBase \in 65..90 THEN v + 32 ELSE v

\* a string of one digit, 0..9 being the char codes 48..57, and its number
isNumeric(v) == isString(v) /\ (v - StrBase) \in 48..57

toNumber(v) == v - StrBase - 48

\* Number.prototype.toString of 0..9; a string is its own string
toString(v) == IF isString(v) THEN v ELSE Str(48 + v)

\* a < b of JavaScript: two strings compare by their code units; a string
\* against a number converts to its number, a letter to NaN, as undefined
\* does, and NaN is less than nothing
Less(a, b) ==
    IF a = Undef \/ b = Undef THEN FALSE
    ELSE IF isString(a) = isString(b) THEN a < b
    ELSE IF isString(a) THEN isNumeric(a) /\ toNumber(a) < b
    ELSE isNumeric(b) /\ a < toNumber(b)

cmp(a, b) == IF Less(a, b) THEN -1 ELSE IF a = b THEN 0 ELSE 1

calcField(o, field) ==
    IF isString(fieldGetter(o, field)) THEN toLowerCase(fieldGetter(o, field))
    ELSE fieldGetter(o, field)

fieldComparator(expr, a, b) ==
    IF exprSuffix(expr) = "-"
    THEN cmp(calcField(b, exprField(expr)), calcField(a, exprField(expr)))
    ELSE cmp(calcField(a, exprField(expr)), calcField(b, exprField(expr)))

\* Ordering.comparator(ordering) for an ordering that is one string
comparator(ordering, a, b) == fieldComparator(ordering, a, b)

RECURSIVE sortedIndexLoop(_, _, _, _, _)
sortedIndexLoop(array, item, expr, low, high) ==
    IF low < high
    THEN LET mid == (low + high) \div 2
         IN IF fieldComparator(expr, array[mid + 1], item) < 0
            THEN sortedIndexLoop(array, item, expr, mid + 1, high)
            ELSE sortedIndexLoop(array, item, expr, low, mid)
    ELSE high

sortedIndex(array, item, expr) == sortedIndexLoop(array, item, expr, 0, Len(array))

\* Array.prototype.sort with a comparator (stable)
RECURSIVE SortBy(_, _)
SortBy(s, expr) ==
    IF Len(s) <= 1 THEN s
    ELSE LET rest == SortBy(SubSeq(s, 1, Len(s) - 1), expr)
             x == s[Len(s)]
             after == {i \in DOMAIN rest : fieldComparator(expr, rest[i], x) > 0}
             pos == IF after = {} THEN Len(rest) ELSE MinOf(after) - 1
         IN Splice(rest, pos, 0, <<x>>)

IsSortedBy(s, expr) ==
    \A i, j \in DOMAIN s : i < j => fieldComparator(expr, s[i], s[j]) <= 0

\* Criteria.test: a criteria is a set of <<field path, argument>> entries; a
\* bare argument is promoted to {$eq: argument}, an undefined one is skipped
CriteriaTest(what, criteria) ==
    \A kv \in criteria :
        kv[2] = Undef \/ fieldGetter(what, kv[1]) = kv[2]

\* Criteria.test in full, for the operators $eq, $ne, $lt, $lte, $gt, $gte
\* and $not and for field keys.  A criteria is the sequence of its entries
\* [key, value] in property order; a value is Prim(v), a primitive, or
\* Obj(criteria), a nested criteria (value instanceof Object)
Prim(v) == [primitive |-> v]

Obj(criteria) == [criteria |-> criteria]

isObject(value) == "criteria" \in DOMAIN value

OperatorKeys == {"$eq", "$ne", "$lt", "$lte", "$gt", "$gte", "$not"}

\* operators[key](what, value) on primitives; a <= b is false on undefined
operators(key, what, value) ==
    CASE key = "$eq" -> what = value
      [] key = "$ne" -> what # value
      [] key = "$lt" -> Less(what, value)
      [] key = "$lte" -> Less(what, value) \/ (what = value /\ what # Undef)
      [] key = "$gt" -> Less(value, what)
      [] key = "$gte" -> Less(value, what) \/ (what = value /\ what # Undef)

\* a variant that skips no entry
isUndefinedNever(value) == FALSE

\* typeof value === 'undefined'
isUndefined(value) == ~isObject(value) /\ value.primitive = Undef

RECURSIVE test(_, _)
test(what, criteria) ==
    IF criteria = <<>> THEN TRUE
    ELSE LET key == criteria[1].key
             value == criteria[1].value
             passes ==
                 IF key = "$not" THEN ~test(what, value.criteria)
                 ELSE IF key \in OperatorKeys THEN operators(key, what, value.primitive)
                 ELSE test(fieldGetter(what, key),
                           IF isObject(value) THEN value.criteria
                           ELSE <<[key |-> "$eq", value |-> value]>>)
         IN IF isUndefined(value) THEN test(what, Tail(criteria))
            ELSE IF ~passes THEN FALSE
            ELSE test(what, Tail(criteria))

\* isEqual on two cache entities: own enumerable properties, not identity
isEqual(x, y) ==
    x.id = y.id /\ x.text = y.text /\ x.author_id = y.author_id

----------------------------------------------------------------------------
(* uniqueIndex.ts *)

UniqueIndex(mutable) == [arr |-> <<>>, items |-> EmptyMap, frozen |-> ~mutable]

UIGet(ui, pk) == IF pk \in DOMAIN ui.items THEN ui.items[pk] ELSE NoEnt

UIHas(ui, pk) == pk \in DOMAIN ui.items

UICopy(ui, freeze) == [arr |-> ui.arr, items |-> ui.items, frozen |-> freeze]

UIAddOne(ui, item) ==
    LET replace == item.pk \in DOMAIN ui.items
        idx == sortedIndex(ui.arr, item, "pk")
    IN [arr |-> Splice(ui.arr, idx, IF replace THEN 1 ELSE 0, <<item>>),
        items |-> MapSet(ui.items, item.pk, item),
        frozen |-> ui.frozen]

RECURSIVE UIAdd(_, _)
UIAdd(ui, its) ==
    IF its = <<>> THEN ui
    ELSE UIAdd(UIAddOne(ui, its[1]), Tail(its))

UIRemove(ui, pk) ==
    IF pk \in DOMAIN ui.items
    THEN LET idx == sortedIndex(ui.arr, [NoEnt EXCEPT !.pk = pk], "pk")
         IN [arr |-> Splice(ui.arr, idx, 1, <<>>),
             items |-> MapDel(ui.items, pk),
             frozen |-> ui.frozen]
    ELSE ui

UILength(ui) == Len(ui.arr)

\* UniqueIndex for pks of any type.  The operators above are these for pks
\* that are all numbers, where the table can be keyed by the pk itself; here
\* the table _items is keyed by pk.toString()
RECURSIVE tableOf(_)
tableOf(arr) ==
    IF arr = <<>> THEN EmptyMap
    ELSE MapSet(tableOf(SubSeq(arr, 1, Len(arr) - 1)),
                toString(arr[Len(arr)].pk), arr[Len(arr)])

\* UniqueIndexArrayMixin.copy: the table is rebuilt from the sequence
indexCopy(ui, freeze) ==
    [arr |-> ui.arr, items |-> tableOf(ui.arr), frozen |-> freeze]

\* UniqueIndexArrayMixin.add(item)
indexAdd(ui, item) ==
    LET result == IF ui.frozen THEN indexCopy(ui, FALSE) ELSE ui
        strPk == toString(item.pk)
        replace == strPk \in DOMAIN result.items
        idx == sortedIndex(result.arr, item, "pk")
    IN [arr |-> Splice(result.arr, idx, IF replace THEN 1 ELSE 0, <<item>>),
        items |-> MapSet(result.items, strPk, item),
        frozen |-> ui.frozen]

\* UniqueIndexArrayMixin.remove(pk)
indexRemove(ui, pk) ==
    LET result == IF ui.frozen THEN indexCopy(ui, FALSE) ELSE ui
        strPk == toString(pk)
        idx == sortedIndex(result.arr, [pk |-> pk], "pk")
    IN IF strPk \in DOMAIN result.items
       THEN [arr |-> Splice(result.arr, idx, 1, <<>>),
             items |-> MapDel(result.items, strPk),
             frozen |-> ui.frozen]
       ELSE [result EXCEPT !.frozen = ui.frozen]

----------------------------------------------------------------------------
(* Collection configuration: Posts = {relations: {author: {collection:     *)
(* 'Users', backRef: 'posts'}}}, Users = {}; primaryKey 'id' (db.ts)       *)

relations(c) ==
    IF c = "Posts"
    THEN {[field |-> "author", collection |-> "Users", foreignKey |-> "author_id"]}
    ELSE {}

IndexedFields(c) == IF c = "Posts" THEN {"author_id"} ELSE {}

ViewColl == "Posts"

getPk(item) == item.id

----------------------------------------------------------------------------
(* The world: the fields of both collections, the Data Source requests in  *)
(* flight, the pending continuations and the view.  ret, arr, err and      *)
(* waits carry a call's return value (an entity, an array), a thrown       *)
(* exception and the promises a call returned to its caller.               *)

World ==
    [index |-> index, indexes |-> indexes, queries |-> queries,
     pendingRequests |-> pendingRequests,
     pendingItemRequests |-> pendingItemRequests,
     requests |-> requests, tasks |-> tasks, view |-> view, obs |-> obs,
     cfg |-> cfg,
     ret |-> NoEnt, arr |-> <<>>, total |-> Undef, err |-> FALSE, waits |-> {}]

NoParams == [where |-> {}, orderBy |-> "", limit |-> Undef, offset |-> Undef]

\* forceLoad only records the option of the call that issued the request
NoRequest ==
    [coll |-> "", op |-> "", pk |-> Null, pks |-> {}, params |-> NoParams,
     forceLoad |-> FALSE, n |-> 0]

\* A pending continuation: the promise chain of one call.  stage is "fetch"
\* (waiting for the fetched value), "hydrate" (waiting for loadRelations),
\* or, once settled, "ok" / "err".  valued: items already holds the value,
\* total its total when the call set one;
\* primary: the value is the one the awaited request's promise resolves to.
\* params, got, latest, applied, sup, clean, gone, replaced only record
\* the call and what happened to it; clean: load() was not called since;
\* gone, of a load: the view was reset since.
NoTask ==
    [kind |-> "", coll |-> "", stage |-> "", waits |-> {}, valued |-> FALSE,
     primary |-> TRUE, pk |-> Null, pks |-> <<>>, items |-> <<>>,
     mask |-> FALSE, tok |-> 0, origin |-> NoRequest, total |-> Undef,
     params |-> NoParams, got |-> <<>>,
     latest |-> FALSE, applied |-> FALSE, sup |-> FALSE, clean |-> TRUE,
     gone |-> FALSE, replaced |-> {}]

InFlight(t) == t.stage \in {"fetch", "hydrate"}

\* every snapshot of collection c that some object still holds a reference to
\* the snapshots somebody can still compare by identity: those kept by a
\* promise or by the view, and any stored snapshot that is not the current one
Held(w, c) ==
    LET stored == UNION {UNION {Range(w.indexes[c][f][k].arr) : k \in DOMAIN w.indexes[c][f]} :
                            f \in DOMAIN w.indexes[c]}
                  \cup UNION {Range(w.queries[c][q].items.arr) : q \in DOMAIN w.queries[c]}
    IN
    (stored \ Range(w.index[c].arr))
    \cup UNION {Range(w.tasks[i].items) \cup Range(w.tasks[i].got) :
                    i \in {j \in DOMAIN w.tasks : w.tasks[j].coll = c}}
    \cup (IF c = ViewColl THEN Range(w.view.items) ELSE {})

UsedRefs(w, c, pk) == {e.ref : e \in {x \in Held(w, c) : x.pk = pk}}

FreshRef(w, c, pk) == MinOf((1..(Cardinality(UsedRefs(w, c, pk)) + 1)) \ UsedRefs(w, c, pk))

UsedReqs(w) ==
    w.requests
    \cup UNION {w.tasks[i].waits \cup {w.tasks[i].origin} : i \in DOMAIN w.tasks}

\* the promise of a new Data Source call: n tells it from the promises of
\* the same call that somebody still refers to
NewReq(w, call) ==
    LET taken == {r.n : r \in {x \in UsedReqs(w) : [x EXCEPT !.n = 0] = call}}
    IN [call EXCEPT !.n = MinOf((1..(Cardinality(taken) + 1)) \ taken)]

UsedToks(w) ==
    {w.tasks[i].tok : i \in DOMAIN w.tasks}
    \cup {w.view.loadingPromise}
    \cup {w.view.itemLoadingPromises[k] : k \in DOMAIN w.view.itemLoadingPromises}

FreshTok(w) == MinOf((1..(Cardinality(UsedToks(w)) + 1)) \ UsedToks(w))

----------------------------------------------------------------------------
(* view.ts: the signal handlers of CollectionView *)

isFiltered(w, item) == CriteriaTest(item, w.view.query)

\* the record of a step: the signals dispatched, the listeners entered, the
\* settling of the Data Source promise and the callbacks of those who wait
\* for it, in the order they happened
loggedReplacing(w, ev, item, previous, active) ==
    IF w.cfg.signals
    THEN [w EXCEPT !.obs.log = Append(@, [ev |-> ev, item |-> item,
                                          previous |-> previous, active |-> active])]
    ELSE w

logged(w, ev, item, active) == loggedReplacing(w, ev, item, NoEnt, active)

\* CollectionView.removeItem; _pks is undefined until the first onFetched
removeItem(w, item) ==
    IF ~w.view.loaded THEN [w EXCEPT !.err = TRUE]
    ELSE IF item.pk \in w.view.pks
    THEN LET idx == IndexOf(w.view.items, item)
         IN [w EXCEPT !.view.items = Splice(w.view.items, idx, 1, <<>>),
                      !.view.pks = w.view.pks \ {item.pk}]
    ELSE w

\* a variant of fetchAll that asks for pending pks again
fetchAllStartUnshared(w, c, pks, forceLoad) ==
    LET wanted == {pk \in pks : forceLoad \/ ~UIHas(w.index[c], pk)}
        r == NewReq(w, [NoRequest EXCEPT !.coll = c, !.op = "findAll", !.pks = wanted,
                                         !.forceLoad = forceLoad /\ w.cfg.watch])
    IN IF wanted = {} THEN [w EXCEPT !.waits = {}]
       ELSE [w EXCEPT
               !.requests = w.requests \cup {r},
               !.pendingItemRequests[c] =
                   [pk \in (DOMAIN w.pendingItemRequests[c]) \cup wanted |->
                       IF pk \in wanted THEN r ELSE w.pendingItemRequests[c][pk]],
               !.waits = {r}]

\* Collection.fetchAll up to its return: the promises the caller waits on
fetchAllStart(w, c, pks, forceLoad) ==
    LET wanted == {pk \in pks : forceLoad \/ ~UIHas(w.index[c], pk)}
        pending == {pk \in wanted : pk \in DOMAIN w.pendingItemRequests[c]}
        promises == {w.pendingItemRequests[c][pk] : pk \in pending}
        findAll(pksToLoad, r) ==
            IF pksToLoad = {}
            THEN [w EXCEPT !.waits = promises]
            ELSE [w EXCEPT
                    !.requests = w.requests \cup {r},
                    !.pendingItemRequests[c] =
                        [pk \in (DOMAIN w.pendingItemRequests[c]) \cup pksToLoad |->
                            IF pk \in pksToLoad THEN r ELSE w.pendingItemRequests[c][pk]],
                    !.waits = promises \cup {r}]
    IN findAll(wanted \ pending,
               NewReq(w, [NoRequest EXCEPT !.coll = c, !.op = "findAll",
                                           !.pks = wanted \ pending,
                                           !.forceLoad = forceLoad /\ w.cfg.watch]))

\* a variant of loadRelations that fetches nothing
loadRelationsStartIdle(w, c, items, mask) == [w EXCEPT !.waits = {}]

\* Collection.loadRelations up to its return; mask = {author: true} or none
loadRelationsStart(w, c, items, mask) ==
    IF ~mask THEN [w EXCEPT !.waits = {}]
    ELSE IF \A e \in Range(items) : e = NoEnt THEN [w EXCEPT !.waits = {}]
    ELSE IF relations(c) = {} THEN [w EXCEPT !.err = TRUE]
    ELSE LET rel == CHOOSE x \in relations(c) : x.field = "author"
             pksToLoad == {e[rel.foreignKey] : e \in {x \in Range(items) :
                              /\ x # NoEnt
                              /\ x[rel.foreignKey] # Null
                              /\ ~UIHas(w.index[rel.collection], x[rel.foreignKey])}}
         IN IF pksToLoad = {} THEN [w EXCEPT !.waits = {}]
            ELSE fetchAllStart(w, rel.collection, pksToLoad, FALSE)

\* CollectionView.addItem: registers the per-pk hydration promise
addItem(w, item) ==
    IF ~w.view.loaded THEN [w EXCEPT !.err = TRUE]
    ELSE IF item.pk \in w.view.pks THEN [w EXCEPT !.err = TRUE]
    ELSE LET register(w1, tok) ==
                IF w1.err THEN w1
                ELSE [w1 EXCEPT
                        !.view.itemLoadingPromises =
                            MapSet(w1.view.itemLoadingPromises, item.pk, tok),
                        !.tasks = Append(
                            [i \in DOMAIN w1.tasks |->
                                IF w1.tasks[i].kind = "addItem"
                                   /\ w1.tasks[i].pk = item.pk
                                THEN [w1.tasks[i] EXCEPT !.sup = FALSE]
                                ELSE w1.tasks[i]],
                            [NoTask EXCEPT !.kind = "addItem", !.coll = ViewColl,
                                           !.stage = "hydrate", !.waits = w1.waits,
                                           !.pk = item.pk, !.items = <<item>>,
                                           !.tok = tok,
                                           !.sup = \E i \in DOMAIN w1.tasks :
                                                /\ w1.tasks[i].kind = "addItem"
                                                /\ InFlight(w1.tasks[i])
                                                /\ w1.tasks[i].clean
                                                /\ w1.tasks[i].pk = item.pk]),
                        !.waits = {}]
             promised(w1) == register(w1, FreshTok(w1))
         IN promised(loadRelationsStart(w, ViewColl, <<item>>, w.view.mask))

\* view.total is <<n>> when it is the number n, which may be negative, and
\* NoTotal when it is undefined or no number
NoTotal == <<>>

\* total++ and total--; an undefined total stays no number
Incremented(total) == IF total = NoTotal THEN NoTotal ELSE <<total[1] + 1>>

Decremented(total) == IF total = NoTotal THEN NoTotal ELSE <<total[1] - 1>>

\* (currentPage + 1) * pageSize < total
MorePages(v) ==
    /\ v.total # NoTotal
    /\ ((IF v.currentPage = Undef THEN 0 ELSE v.currentPage) + 1) * v.pageSize < v.total[1]

\* PaginatedView.addItem and LoadMoreView.addItem; items is undefined until
\* the first onFetched
pagedAddItem(w, item) ==
    LET v == w.view
        counted == [w EXCEPT !.view.total = Incremented(v.total)]
        below == fieldComparator(v.orderBy, item, v.items[Len(v.items)]) > 0
        above == fieldComparator(v.orderBy, item, v.items[1]) < 0
    IN IF ~v.loaded THEN [counted EXCEPT !.err = TRUE]
       ELSE IF v.items # <<>> /\ below /\ MorePages(counted.view) THEN counted
       ELSE IF v.items # <<>> /\ v.kind = "PaginatedView" /\ above
               /\ v.currentPage > 0 THEN counted
       ELSE addItem(counted, item)

\* a variant of removeItem that leaves total alone
pagedRemoveItemUncounted(w, item) == removeItem(w, item)

\* PaginatedView.removeItem and LoadMoreView.removeItem
pagedRemoveItem(w, item) ==
    removeItem(IF isFiltered(w, item)
               THEN [w EXCEPT !.view.total = Decremented(w.view.total)]
               ELSE w,
               item)

\* this.addItem(item) and this.removeItem(item), as the class of the view
\* overrides them
viewAddItem(w, item) ==
    IF w.view.kind = "CollectionView" THEN addItem(w, item)
    ELSE pagedAddItem(w, item)

\* CollectionView.dispose: both bindings are detached from their signals
dispose(w) == [w EXCEPT !.view.disposed = TRUE]

viewRemoveItem(w, item) ==
    IF w.view.kind = "CollectionView" THEN removeItem(w, item)
    ELSE pagedRemoveItem(w, item)

onInjected(w, item, previous) ==
    LET add(w1) == IF w1.err THEN w1
                   ELSE IF isFiltered(w1, item) THEN viewAddItem(w1, item)
                   ELSE w1
        entered(w0) == add(IF previous # NoEnt THEN viewRemoveItem(w0, previous) ELSE w0)
    IN entered(loggedReplacing(w, "onInjected", item, previous, TRUE))

onEjected(w, item) == viewRemoveItem(logged(w, "onEjected", item, TRUE), item)

\* a variant in which a detached binding still calls its listener
executesDetached(v, active) == active

\* a binding calls its listener when it is active and was not detached from
\* its signal (CollectionView.dispose)
executes(v, active) == active /\ ~v.disposed

\* bookkeeping on the pending continuations of the view: which pks of a
\* hydrating load were replaced, which hydrations were disturbed;
\* and which hydrations of a fetch saw a related entity removed
noteInserted(w, c, item, previous) ==
    IF c # ViewColl THEN w
    ELSE [w EXCEPT !.tasks =
            [i \in DOMAIN w.tasks |->
                LET t == w.tasks[i]
                IN IF t.kind = "load" /\ t.stage = "hydrate" /\ previous # NoEnt
                      /\ previous \in Range(t.items)
                   THEN [t EXCEPT !.replaced = t.replaced \cup {item.pk}]
                   ELSE IF t.kind = "addItem" /\ InFlight(t) /\ t.pk = item.pk
                           /\ ~(executes(w.view, w.view.insertedActive) /\ isFiltered(w, item))
                   THEN [t EXCEPT !.clean = FALSE, !.sup = FALSE]
                   ELSE t]]

noteRemoved(w, c, item) ==
    IF c # ViewColl
    THEN [w EXCEPT !.tasks =
            [i \in DOMAIN w.tasks |->
                LET t == w.tasks[i]
                IN IF t.kind \in {"fetchOne", "fetch", "fetchAll"} /\ t.mask
                      /\ t.stage = "hydrate"
                      /\ \E rel \in relations(t.coll) : rel.collection = c
                   THEN [t EXCEPT !.gone = TRUE]
                   ELSE t]]
    ELSE [w EXCEPT !.tasks =
            [i \in DOMAIN w.tasks |->
                LET t == w.tasks[i]
                IN IF t.kind = "load"
                   THEN [t EXCEPT !.replaced = t.replaced \ {item.pk}]
                   ELSE IF t.kind = "addItem" /\ t.pk = item.pk
                   THEN [t EXCEPT !.clean = FALSE, !.sup = FALSE,
                                  !.gone = t.gone \/ executes(w.view, w.view.removedActive)]
                   ELSE t]]

\* Signal.dispatch of collection.inserted / collection.removed
\* a variant of dispatch that calls no listener
dispatchInsertedUnheard(w, c, item, previous) ==
    noteInserted(loggedReplacing(w, "inserted", item, previous,
                        c = ViewColl /\ executes(w.view, w.view.insertedActive)),
                 c, item, previous)

dispatchInserted(w, c, item, previous) ==
    LET dispatch(w0) == IF c = ViewColl /\ executes(w0.view, w0.view.insertedActive)
                        THEN onInjected(w0, item, previous)
                        ELSE w0
    IN dispatch(noteInserted(loggedReplacing(w, "inserted", item, previous,
                                    c = ViewColl /\ executes(w.view, w.view.insertedActive)),
                             c, item, previous))

dispatchRemoved(w, c, item) ==
    LET dispatch(w0) == IF c = ViewColl /\ executes(w0.view, w0.view.removedActive)
                        THEN onEjected(w0, item)
                        ELSE w0
    IN dispatch(noteRemoved(logged(w, "removed", item,
                                   c = ViewColl /\ executes(w.view, w.view.removedActive)),
                            c, item))

----------------------------------------------------------------------------
(* collection.ts: insert, remove, clear *)

\* a variant of remove that leaves the cached queries alone
removeKeepsQueries(w, c, item, notify) ==
    LET pk == item.pk
        newIndexes ==
            [f \in DOMAIN w.indexes[c] |->
                LET bucketMap == w.indexes[c][f]
                    fk == item[f]
                IN IF fk = Null \/ fk \notin DOMAIN bucketMap THEN bucketMap
                   ELSE LET its == UIRemove(bucketMap[fk], pk)
                        IN IF UILength(its) = 0 THEN MapDel(bucketMap, fk)
                           ELSE MapSet(bucketMap, fk, its)]
        removed(w1) == IF notify THEN dispatchRemoved(w1, c, item) ELSE w1
    IN IF pk = Null THEN [w EXCEPT !.err = TRUE]
       ELSE removed([w EXCEPT !.index[c] = UIRemove(w.index[c], pk),
                              !.indexes[c] = newIndexes])

\* a variant of remove that dispatches removed whatever the caller asks
removeLoud(w, c, item, notify) ==
    LET pk == item.pk
        newIndexes ==
            [f \in DOMAIN w.indexes[c] |->
                LET bucketMap == w.indexes[c][f]
                    fk == item[f]
                IN IF fk = Null \/ fk \notin DOMAIN bucketMap THEN bucketMap
                   ELSE LET its == UIRemove(bucketMap[fk], pk)
                        IN IF UILength(its) = 0 THEN MapDel(bucketMap, fk)
                           ELSE MapSet(bucketMap, fk, its)]
        keep == {q \in DOMAIN w.queries[c] : ~UIHas(w.queries[c][q].items, pk)}
    IN IF pk = Null THEN [w EXCEPT !.err = TRUE]
       ELSE dispatchRemoved([w EXCEPT !.index[c] = UIRemove(w.index[c], pk),
                                      !.indexes[c] = newIndexes,
                                      !.queries[c] = [q \in keep |-> w.queries[c][q]]],
                            c, item)

\* Collection.remove
remove(w, c, item, notify) ==
    LET pk == item.pk
        newIndexes ==
            [f \in DOMAIN w.indexes[c] |->
                LET bucketMap == w.indexes[c][f]
                    fk == item[f]
                IN IF fk = Null \/ fk \notin DOMAIN bucketMap THEN bucketMap
                   ELSE LET its == UIRemove(bucketMap[fk], pk)
                        IN IF UILength(its) = 0 THEN MapDel(bucketMap, fk)
                           ELSE MapSet(bucketMap, fk, its)]
        keep == {q \in DOMAIN w.queries[c] : ~UIHas(w.queries[c][q].items, pk)}
        removed(w1) == IF notify THEN dispatchRemoved(w1, c, item) ELSE w1
    IN IF pk = Null THEN [w EXCEPT !.err = TRUE]
       ELSE removed([w EXCEPT !.index[c] = UIRemove(w.index[c], pk),
                              !.indexes[c] = newIndexes,
                              !.queries[c] = [q \in keep |-> w.queries[c][q]]])

\* Collection.createInstance: a new object with the payload's own properties
createInstance(w, c, raw) ==
    [id |-> raw.id, text |-> raw.text, author_id |-> raw.author_id,
     pk |-> getPk(raw), ref |-> FreshRef(w, c, getPk(raw))]

\* a variant of insert that replaces the cached entity even by an equal one
insertAlways(w, c, raw) ==
    LET store(cacheItem, previous) ==
            LET add(w1) ==
                    [w1 EXCEPT
                        !.index[c] = UIAdd(w1.index[c], <<cacheItem>>),
                        !.indexes[c] =
                            [f \in DOMAIN w1.indexes[c] |->
                                LET bucketMap == w1.indexes[c][f]
                                    fk == cacheItem[f]
                                IN IF fk = Null THEN bucketMap
                                   ELSE MapSet(bucketMap, fk,
                                            UIAdd(IF fk \in DOMAIN bucketMap
                                                  THEN bucketMap[fk]
                                                  ELSE UniqueIndex(FALSE),
                                                  <<cacheItem>>))],
                        !.queries[c] =
                            [q \in DOMAIN w1.queries[c] |->
                                LET cached == w1.queries[c][q]
                                IN IF CriteriaTest(cacheItem, cached.where)
                                      /\ ~cached.items.frozen
                                   THEN [cached EXCEPT
                                            !.items = UIAdd(cached.items, <<cacheItem>>)]
                                   ELSE cached]]
                return(w3) == [w3 EXCEPT !.ret = cacheItem]
            IN IF FALSE
               THEN [w EXCEPT !.ret = previous]
               ELSE return(dispatchInserted(
                        add(IF previous # NoEnt THEN remove(w, c, previous, FALSE)
                            ELSE w),
                        c, cacheItem, previous))
    IN IF getPk(raw) = Null THEN [w EXCEPT !.err = TRUE]
       ELSE store(createInstance(w, c, raw), UIGet(w.index[c], getPk(raw)))

\* Collection.insert of a payload without embedded relations
insert(w, c, raw) ==
    LET store(cacheItem, previous) ==
            LET add(w1) ==
                    [w1 EXCEPT
                        !.index[c] = UIAdd(w1.index[c], <<cacheItem>>),
                        !.indexes[c] =
                            [f \in DOMAIN w1.indexes[c] |->
                                LET bucketMap == w1.indexes[c][f]
                                    fk == cacheItem[f]
                                IN IF fk = Null THEN bucketMap
                                   ELSE MapSet(bucketMap, fk,
                                            UIAdd(IF fk \in DOMAIN bucketMap
                                                  THEN bucketMap[fk]
                                                  ELSE UniqueIndex(FALSE),
                                                  <<cacheItem>>))],
                        !.queries[c] =
                            [q \in DOMAIN w1.queries[c] |->
                                LET cached == w1.queries[c][q]
                                IN IF CriteriaTest(cacheItem, cached.where)
                                      /\ ~cached.items.frozen
                                   THEN [cached EXCEPT
                                            !.items = UIAdd(cached.items, <<cacheItem>>)]
                                   ELSE cached]]
                return(w3) == [w3 EXCEPT !.ret = cacheItem]
            IN IF previous # NoEnt /\ isEqual(previous, cacheItem)
               THEN [w EXCEPT !.ret = previous]
               ELSE return(dispatchInserted(
                        add(IF previous # NoEnt THEN remove(w, c, previous, FALSE)
                            ELSE w),
                        c, cacheItem, previous))
    IN IF getPk(raw) = Null THEN [w EXCEPT !.err = TRUE]
       ELSE store(createInstance(w, c, raw), UIGet(w.index[c], getPk(raw)))

\* Collection.insertArray: stops at the first insert that throws
RECURSIVE insertArrayLoop(_, _, _, _)
insertArrayLoop(w, c, raws, acc) ==
    LET next(w1) == IF w1.err THEN w1
                    ELSE insertArrayLoop(w1, c, Tail(raws), Append(acc, w1.ret))
    IN IF raws = <<>> THEN [w EXCEPT !.arr = acc]
       ELSE next(insert(w, c, raws[1]))

\* the back references of collection c, set up by the relation of Posts
backRefs(c) ==
    IF c = "Users"
    THEN {[field |-> "posts", collection |-> "Posts", foreignKey |-> "author_id"]}
    ELSE {}

\* a variant of the second loop that removes nothing
keepMissing(w, rc, missing) == w

\* Collection.insert, for (let missingItem of oldBackRef): what is left of
\* the copied bucket is removed from the related collection
RECURSIVE removeMissing(_, _, _)
removeMissing(w, rc, missing) ==
    LET next(w1) == IF w1.err THEN w1 ELSE removeMissing(w1, rc, Tail(missing))
        noted(w1) == IF w1.cfg.watch
                     THEN [w1 EXCEPT !.obs.missing = @ \cup {missing[1].pk}]
                     ELSE w1
    IN IF missing = <<>> THEN w
       ELSE next(noted(remove(w, rc, missing[1], TRUE)))

\* Collection.insert, for (let embeddedItem of embeddedItems): each element
\* is inserted into the related collection and taken out of oldBackRef,
\* which remove() changes in place only when it is the mutable copy
RECURSIVE insertEmbeddedItems(_, _, _, _)
insertEmbeddedItems(w, rc, embeddedItems, oldBackRef) ==
    LET next(w1) ==
            IF w1.err THEN w1
            ELSE insertEmbeddedItems(w1, rc, Tail(embeddedItems),
                    IF oldBackRef.frozen THEN oldBackRef
                    ELSE UIRemove(oldBackRef, w1.ret.pk))
    IN IF embeddedItems = <<>> THEN removeMissing(w, rc, oldBackRef.arr)
       ELSE next(insert(w, rc, embeddedItems[1]))

\* Collection.insert of a payload whose back reference field holds the
\* array embeddedItems, up to the point where the field has been deleted
\* from the payload; insert then goes on as for a plain payload
insertBackRefs(w, c, raw, embeddedItems) ==
    LET pk == getPk(raw)
        cascade(backRefConfig) ==
            LET bucketMap == w.indexes[backRefConfig.collection][backRefConfig.foreignKey]
            IN insertEmbeddedItems(w, backRefConfig.collection, embeddedItems,
                    IF pk \in DOMAIN bucketMap THEN UICopy(bucketMap[pk], FALSE)
                    ELSE UniqueIndex(FALSE))
    IN IF pk = Null THEN [w EXCEPT !.err = TRUE]
       ELSE IF backRefs(c) = {} THEN w
       ELSE cascade(CHOOSE backRefConfig \in backRefs(c) : TRUE)

\* a variant of clear that forgets the secondary indexes
clearKeepsIndexes(w, c) ==
    [w EXCEPT !.index[c] = UniqueIndex(FALSE),
              !.queries[c] = EmptyMap]

\* Collection.clear
clear(w, c) ==
    [w EXCEPT !.index[c] = UniqueIndex(FALSE),
              !.indexes[c] = [f \in DOMAIN w.indexes[c] |-> EmptyMap],
              !.queries[c] = EmptyMap]

\* Array.prototype.slice(offset, offset + limit) where they are given
Sliced(s, params) ==
    LET to(rest) == IF params.limit # Undef /\ params.limit < Len(rest)
                    THEN SubSeq(rest, 1, params.limit)
                    ELSE rest
    IN to(IF params.offset # Undef
          THEN SubSeq(s, params.offset + 1, Len(s))
          ELSE s)

\* index[query[field]]: the property key of a value.  A bucket is kept
\* under fk.toString(), which the model writes as the number itself, so the
\* string of that number names the same bucket
propertyKey(v) == IF isNumeric(v) THEN toNumber(v) ELSE v

\* Collection.filter
filter(w, c, params) ==
    LET query == params.where
        usable == {f \in DOMAIN w.indexes[c] :
                      \E kv \in query : kv[1] = f /\ kv[2] # Null}
        arg(f) == propertyKey((CHOOSE kv \in query : kv[1] = f)[2])
        shortCircuit == \E f \in usable : arg(f) \notin DOMAIN w.indexes[c][f]
        candidates == {w.index[c]} \cup {w.indexes[c][f][arg(f)] : f \in usable}
        bestIndex == CHOOSE b \in candidates :
                        \A o \in candidates : UILength(b) <= UILength(o)
        sorted(matching) == IF params.orderBy # "" THEN SortBy(matching, params.orderBy)
                            ELSE matching
        sliced(matching) ==
            [w EXCEPT !.arr = Sliced(sorted(matching), params),
                      !.total = Len(matching)]
    IN IF shortCircuit THEN [w EXCEPT !.arr = <<>>, !.total = 0]
       ELSE IF (params.offset # Undef \/ params.limit # Undef) /\ params.orderBy = ""
       THEN [w EXCEPT !.err = TRUE]
       ELSE sliced(SelectSeq(bestIndex.arr, LAMBDA e : CriteriaTest(e, query)))

----------------------------------------------------------------------------
(* The continuations *)

PkSet(items) == {items[i].pk : i \in DOMAIN items}

\* LoadMoreView.onFetched: the loop over the fetched items
RECURSIVE mergeFetched(_, _)
mergeFetched(w, items) ==
    IF items = <<>> THEN w
    ELSE IF items[1].pk \in w.view.pks THEN mergeFetched(w, Tail(items))
    ELSE mergeFetched(
            [w EXCEPT !.view.items =
                          Splice(w.view.items,
                                 sortedIndex(w.view.items, items[1], w.view.orderBy),
                                 0, <<items[1]>>),
                      !.view.pks = w.view.pks \cup {items[1].pk}],
            Tail(items))

\* CollectionView.onFetched and its overrides; total is items.total
onFetched(w, items, total) ==
    LET counted == IF total = Undef THEN NoTotal ELSE <<total>>
    IN
    CASE w.view.kind = "LoadMoreView" ->
            mergeFetched([w EXCEPT !.view.total = counted, !.view.loaded = TRUE],
                         items)
      [] w.view.kind = "PaginatedView" ->
            [w EXCEPT !.view.items = items, !.view.pks = PkSet(items),
                      !.view.loaded = TRUE, !.view.total = counted]
      [] OTHER ->
            [w EXCEPT !.view.items = items, !.view.pks = PkSet(items),
                      !.view.loaded = TRUE]

\* bookkeeping: the page that load i of a LoadMoreView delivered, or that it
\* failed, unless the view was reset since the load was issued
notePage(w, i, ok) ==
    IF w.view.kind # "LoadMoreView" \/ w.tasks[i].gone THEN w
    ELSE IF ok
    THEN [w EXCEPT !.view.fetched = @ \cup PkSet(w.tasks[i].items)]
    ELSE [w EXCEPT !.view.failed = TRUE]

\* a variant of the callbacks of load() without the check against
\* _loadingPromise: whatever load resolves last fills the view
loadResolvedUnchecked(w, i) ==
    LET t == w.tasks[i]
        isLatest == t.tok = w.view.loadingPromise
        finally(w1) ==
            [w1 EXCEPT !.view.loading = FALSE, !.view.loadingPromise = 0,
                       !.view.insertedActive = TRUE,
                       !.view.removedActive = TRUE]
        settled(w2) ==
            [w2 EXCEPT !.tasks[i].stage = "ok", !.tasks[i].waits = {},
                       !.tasks[i].latest = isLatest,
                       !.tasks[i].applied = (w2.view.items # w.view.items
                                             \/ w2.view.pks # w.view.pks)]
    IN notePage(settled(finally(onFetched(w, t.items, t.total))), i, TRUE)

\* the two callbacks load() attaches to fetchPromise, when it resolved
loadResolved(w, i) ==
    LET t == w.tasks[i]
        isLatest == t.tok = w.view.loadingPromise
        finally(w1) ==
            IF isLatest
            THEN [w1 EXCEPT !.view.loading = FALSE, !.view.loadingPromise = 0,
                            !.view.insertedActive = TRUE,
                            !.view.removedActive = TRUE]
            ELSE w1
        settled(w2) ==
            [w2 EXCEPT !.tasks[i].stage = "ok", !.tasks[i].waits = {},
                       !.tasks[i].latest = isLatest,
                       !.tasks[i].applied = (w2.view.items # w.view.items
                                             \/ w2.view.pks # w.view.pks)]
    IN notePage(settled(finally(IF isLatest THEN onFetched(w, t.items, t.total)
                                ELSE w)), i, TRUE)

\* a variant of load() whose callback runs on resolution only: a rejected
\* load leaves the view as it is
loadRejectedStuck(w, i) ==
    [w EXCEPT !.tasks[i].stage = "err", !.tasks[i].waits = {},
              !.tasks[i].latest = w.tasks[i].tok = w.view.loadingPromise]

\* the always() callback of load(), when fetchPromise was rejected
loadRejected(w, i) ==
    LET t == w.tasks[i]
        isLatest == t.tok = w.view.loadingPromise
        w2 == IF isLatest
              THEN [w EXCEPT !.view.loading = FALSE, !.view.loadingPromise = 0,
                             !.view.insertedActive = TRUE,
                             !.view.removedActive = TRUE]
              ELSE w
    IN notePage([w2 EXCEPT !.tasks[i].stage = "err", !.tasks[i].waits = {},
                            !.tasks[i].latest = isLatest], i, FALSE)

\* a variant of the callback of addItem() without the check against
\* _itemLoadingPromises: every hydration that completes adds its item
addItemResolvedUnchecked(w, i) ==
    LET t == w.tasks[i]
        item == t.items[1]
        isLatest == MapGet(w.view.itemLoadingPromises, t.pk) = t.tok
        idx == sortedIndex(w.view.items, item, w.view.orderBy)
        settled(w1) ==
            [w1 EXCEPT !.tasks[i].stage = "ok", !.tasks[i].waits = {},
                       !.tasks[i].latest = isLatest,
                       !.tasks[i].applied = (w1.view.items # w.view.items
                                             \/ w1.view.pks # w.view.pks)]
    IN settled([w EXCEPT !.view.itemLoadingPromises =
                              MapDel(w.view.itemLoadingPromises, t.pk),
                         !.view.items = Splice(w.view.items, idx, 0, <<item>>),
                         !.view.pks = w.view.pks \cup {item.pk}])

\* the callback addItem() attaches to the hydration promise
addItemResolved(w, i) ==
    LET t == w.tasks[i]
        item == t.items[1]
        isLatest == MapGet(w.view.itemLoadingPromises, t.pk) = t.tok
        idx == sortedIndex(w.view.items, item, w.view.orderBy)
        settled(w1) ==
            [w1 EXCEPT !.tasks[i].stage = "ok", !.tasks[i].waits = {},
                       !.tasks[i].latest = isLatest,
                       !.tasks[i].applied = (w1.view.items # w.view.items
                                             \/ w1.view.pks # w.view.pks)]
    IN settled(IF isLatest
               THEN [w EXCEPT !.view.itemLoadingPromises =
                                   MapDel(w.view.itemLoadingPromises, t.pk),
                              !.view.items = Splice(w.view.items, idx, 0, <<item>>),
                              !.view.pks = w.view.pks \cup {item.pk}]
               ELSE w)

\* the promise of task i is fulfilled: run what its owner attached to it
resolveTask(w, i) ==
    LET t == w.tasks[i]
    IN CASE t.kind = "load" -> loadResolved(w, i)
         [] t.kind = "addItem" -> addItemResolved(w, i)
         [] OTHER -> [w EXCEPT !.tasks[i].stage = "ok", !.tasks[i].waits = {}]

\* the promise of task i is rejected
rejectTask(w, i) ==
    LET t == w.tasks[i]
        w0 == [w EXCEPT !.err = FALSE]
    IN CASE t.kind = "load" -> loadRejected(w0, i)
         [] OTHER -> [w0 EXCEPT !.tasks[i].stage = "err", !.tasks[i].waits = {}]

\* the value a fetch-stage continuation receives when its promises resolved
fetchedValue(w, t) ==
    CASE t.valued -> t.items
      [] t.kind = "fetchOne" -> <<UIGet(w.index[t.coll], t.pk)>>
      [] t.kind = "fetchAll" ->
            [k \in DOMAIN t.pks |-> UIGet(w.index[t.coll], t.pks[k])]
      [] OTHER -> t.items

\* run continuation i, which waits for nothing, up to its next suspension
runTask(w, i) ==
    LET t == w.tasks[i]
        hydrate(w1) ==
            IF w1.err THEN rejectTask(w1, i)
            ELSE IF w1.waits = {}
            THEN resolveTask(w1, i)
            ELSE [w1 EXCEPT !.tasks[i].stage = "hydrate",
                            !.tasks[i].waits = w1.waits,
                            !.waits = {}]
        processFetched(value) ==
            IF t.kind = "fetchOne" /\ value[1] = NoEnt
            THEN rejectTask(w, i)
            ELSE hydrate(loadRelationsStart(
                            [w EXCEPT !.tasks[i].items = value,
                                      !.tasks[i].valued = TRUE],
                            t.coll, value, t.mask))
    IN IF t.stage = "hydrate" THEN resolveTask(w, i)
       ELSE processFetched(fetchedValue(w, t))

Runnable(t) == InFlight(t) /\ t.waits = {}

RECURSIVE runFrom(_, _)
runFrom(w, i) ==
    IF i > Len(w.tasks) THEN w
    ELSE IF Runnable(w.tasks[i]) THEN runFrom(runTask(w, i), i + 1)
    ELSE runFrom(w, i + 1)

runReady(w) == runFrom(w, 1)

\* settled promises are dropped before the next step
purge(w) ==
    [w EXCEPT !.tasks = SelectSeq(w.tasks, InFlight), !.obs.rejected = NoRequest,
              !.obs.missing = {}, !.obs.log = <<>>]

----------------------------------------------------------------------------
(* The Data Source settles request r: ok with the raw items in data, or    *)
(* rejected.  The callbacks run in the order they were attached.           *)

\* a variant in which every find has a cache key
queryKeyOfAlways(params) == <<params.where>>

\* the cache key of fetch: only for params without limit and offset
queryKeyOf(params) ==
    IF params.limit = Undef /\ params.offset = Undef
    THEN <<params.where>> ELSE <<>>

RECURSIVE wakeFrom(_, _, _, _, _, _)
wakeFrom(w, r, success, ret, arr, i) ==
    IF i > Len(w.tasks) THEN w
    ELSE LET t == w.tasks[i]
         IN IF ~(InFlight(t) /\ r \in t.waits) THEN wakeFrom(w, r, success, ret, arr, i + 1)
            ELSE IF ~success
            THEN wakeFrom(logged(rejectTask(w, i), "resumed", NoEnt, FALSE),
                          r, success, ret, arr, i + 1)
            ELSE LET gotValue == t.stage = "fetch" /\ t.primary
                                 /\ t.kind \in {"fetchOne", "fetch", "load"}
                     t1 == [t EXCEPT
                              !.waits = t.waits \ {r},
                              !.got = IF t.stage = "fetch" /\ t.origin = r
                                      THEN (IF t.kind = "fetchOne" THEN <<ret>> ELSE arr)
                                      ELSE t.got,
                              !.valued = t.valued \/ gotValue,
                              !.total = IF gotValue /\ r.op = "find"
                                        THEN w.total ELSE t.total,
                              !.items = IF ~gotValue THEN t.items
                                        ELSE IF t.kind = "fetchOne" THEN <<ret>>
                                        ELSE arr]
                 IN wakeFrom(logged([w EXCEPT !.tasks[i] = t1], "resumed", NoEnt, TRUE),
                             r, success, ret, arr, i + 1)

\* a variant that unregisters in a then() callback: only when resolved
unregisterResolved(w, req, success) ==
    IF ~success THEN w
    ELSE CASE req.op = "findOne" ->
                [w EXCEPT !.pendingItemRequests[req.coll] =
                    MapDel(w.pendingItemRequests[req.coll], req.pk)]
           [] req.op = "findAll" ->
                [w EXCEPT !.pendingItemRequests[req.coll] =
                    [pk \in (DOMAIN w.pendingItemRequests[req.coll]) \ req.pks |->
                        w.pendingItemRequests[req.coll][pk]]]
           [] req.op = "find" ->
                [w EXCEPT !.pendingRequests[req.coll] =
                    MapDel(w.pendingRequests[req.coll], req.params)]
           [] OTHER -> w

\* always(promise, () => this.pendingItemRequests.delete(pk)) and its
\* siblings in fetch and fetchAll: run whether the promise resolved or not
unregister(w, req, success) ==
    CASE req.op = "findOne" ->
            [w EXCEPT !.pendingItemRequests[req.coll] =
                MapDel(w.pendingItemRequests[req.coll], req.pk)]
      [] req.op = "findAll" ->
            [w EXCEPT !.pendingItemRequests[req.coll] =
                [pk \in (DOMAIN w.pendingItemRequests[req.coll]) \ req.pks |->
                    w.pendingItemRequests[req.coll][pk]]]
      [] req.op = "find" ->
            [w EXCEPT !.pendingRequests[req.coll] =
                MapDel(w.pendingRequests[req.coll], req.params)]
      [] OTHER -> w

settle(w, r, ok, data) ==
    LET req == r
        c == req.coll
        \* .then((item) => this.insert(item)) and its siblings
        stored(w0) ==
            IF ~ok THEN [w0 EXCEPT !.err = TRUE]
            ELSE CASE req.op \in {"findOne", "create", "update"} ->
                          insert(w0, c, data[1])
                   [] req.op \in {"find", "findAll"} ->
                          insertArrayLoop(w0, c, data, <<>>)
                   [] OTHER ->
                          IF UIHas(w0.index[c], req.pk)
                          THEN remove(w0, c, UIGet(w0.index[c], req.pk), TRUE)
                          ELSE w0
        \* promise.then((items) => { ... this.queries.set(queryKey, ...) })
        cached(w2, success) ==
            IF success /\ req.op = "find" /\ queryKeyOf(req.params) # <<>>
            THEN [w2 EXCEPT !.queries[c] =
                      MapSet(w2.queries[c], req.params.where,
                             [where |-> req.params.where,
                              items |-> UIAdd(UniqueIndex(TRUE), w2.arr)])]
            ELSE w2
        \* the array of a find carries the total the Data Source counted:
        \* the length of the answer unless the step names another
        counted(w3) == IF w3.total = Undef /\ req.op = "find"
                       THEN [w3 EXCEPT !.total = Len(data)] ELSE w3
        woken(w3, success) == wakeFrom(counted(w3), r, success, w3.ret, w3.arr, 1)
        noted(w4) == IF ok \/ ~w4.cfg.watch THEN w4
                     ELSE [w4 EXCEPT !.obs.rejected = r]
        flushed(w5) == runReady([w5 EXCEPT !.err = FALSE])
        promise(w1) ==
            flushed(noted(woken(cached(unregister(w1, req, ~w1.err), ~w1.err),
                                ~w1.err)))
        settled(w1) == promise(logged(w1, "settled", NoEnt, ~w1.err))
    IN settled(stored([w EXCEPT !.requests = w.requests \ {r}]))

----------------------------------------------------------------------------
(* collection.ts: the fetch entry points, up to their return *)

\* a variant of fetchOne that never looks for a pending request
fetchOneUnshared(w, c, pk, forceLoad, mask) ==
    LET cacheItem == UIGet(w.index[c], pk)
        r == NewReq(w, [NoRequest EXCEPT !.coll = c, !.op = "findOne", !.pk = pk,
                                         !.forceLoad = forceLoad /\ w.cfg.watch])
        t == [NoTask EXCEPT !.kind = "fetchOne", !.coll = c, !.stage = "fetch",
                            !.pk = pk, !.mask = mask]
    IN IF ~forceLoad /\ cacheItem # NoEnt
       THEN [w EXCEPT !.tasks = Append(w.tasks,
                [t EXCEPT !.valued = TRUE, !.items = <<cacheItem>>])]
       ELSE [w EXCEPT
                !.requests = w.requests \cup {r},
                !.pendingItemRequests[c] = MapSet(w.pendingItemRequests[c], pk, r),
                !.tasks = Append(w.tasks, [t EXCEPT !.waits = {r}, !.origin = r])]

\* a variant of fetchOne that never answers from the index
fetchOneUncached(w, c, pk, forceLoad, mask) ==
    LET cacheItem == UIGet(w.index[c], pk)
        pending == pk \in DOMAIN w.pendingItemRequests[c]
        r == NewReq(w, [NoRequest EXCEPT !.coll = c, !.op = "findOne", !.pk = pk,
                                         !.forceLoad = forceLoad /\ w.cfg.watch])
        t == [NoTask EXCEPT !.kind = "fetchOne", !.coll = c, !.stage = "fetch",
                            !.pk = pk, !.mask = mask]
    IN IF FALSE
       THEN [w EXCEPT !.tasks = Append(w.tasks,
                [t EXCEPT !.valued = TRUE, !.items = <<cacheItem>>])]
       ELSE IF pending
       THEN [w EXCEPT !.tasks = Append(w.tasks,
                [t EXCEPT !.waits = {w.pendingItemRequests[c][pk]}, !.primary = FALSE,
                          !.origin = w.pendingItemRequests[c][pk]])]
       ELSE [w EXCEPT
                !.requests = w.requests \cup {r},
                !.pendingItemRequests[c] = MapSet(w.pendingItemRequests[c], pk, r),
                !.tasks = Append(w.tasks, [t EXCEPT !.waits = {r}, !.origin = r])]

\* Collection.fetchOne
fetchOne(w, c, pk, forceLoad, mask) ==
    LET cacheItem == UIGet(w.index[c], pk)
        pending == pk \in DOMAIN w.pendingItemRequests[c]
        r == NewReq(w, [NoRequest EXCEPT !.coll = c, !.op = "findOne", !.pk = pk,
                                         !.forceLoad = forceLoad /\ w.cfg.watch])
        t == [NoTask EXCEPT !.kind = "fetchOne", !.coll = c, !.stage = "fetch",
                            !.pk = pk, !.mask = mask]
    IN IF ~forceLoad /\ cacheItem # NoEnt
       THEN [w EXCEPT !.tasks = Append(w.tasks,
                [t EXCEPT !.valued = TRUE, !.items = <<cacheItem>>])]
       ELSE IF pending
       THEN [w EXCEPT !.tasks = Append(w.tasks,
                [t EXCEPT !.waits = {w.pendingItemRequests[c][pk]}, !.primary = FALSE,
                          !.origin = w.pendingItemRequests[c][pk]])]
       ELSE [w EXCEPT
                !.requests = w.requests \cup {r},
                !.pendingItemRequests[c] = MapSet(w.pendingItemRequests[c], pk, r),
                !.tasks = Append(w.tasks, [t EXCEPT !.waits = {r}, !.origin = r])]

\* a variant of fetch that never looks for a pending request
fetchUnshared(w, c, params, forceLoad, mask, kind, tok) ==
    LET queryKey == queryKeyOf(params)
        cached == queryKey # <<>> /\ params.where \in DOMAIN w.queries[c]
        cachedItems == w.queries[c][params.where].items.arr
        r == NewReq(w, [NoRequest EXCEPT !.coll = c, !.op = "find", !.params = params,
                                         !.forceLoad = forceLoad /\ w.cfg.watch])
        t == [NoTask EXCEPT !.kind = kind, !.coll = c, !.stage = "fetch",
                            !.mask = mask, !.tok = tok, !.params = params]
    IN IF ~forceLoad /\ cached
       THEN [w EXCEPT !.tasks = Append(w.tasks,
                [t EXCEPT !.valued = TRUE,
                          !.items = IF params.orderBy # ""
                                    THEN SortBy(cachedItems, params.orderBy)
                                    ELSE cachedItems,
                          !.total = Len(cachedItems),
                          !.got = cachedItems])]
       ELSE [w EXCEPT
                !.requests = w.requests \cup {r},
                !.pendingRequests[c] = MapSet(w.pendingRequests[c], params, r),
                !.tasks = Append(w.tasks, [t EXCEPT !.waits = {r}, !.origin = r])]

\* a variant of fetch that never answers from the cached queries
fetchUncached(w, c, params, forceLoad, mask, kind, tok) ==
    LET queryKey == queryKeyOf(params)
        cached == queryKey # <<>> /\ params.where \in DOMAIN w.queries[c]
        cachedItems == w.queries[c][params.where].items.arr
        pending == params \in DOMAIN w.pendingRequests[c]
        r == NewReq(w, [NoRequest EXCEPT !.coll = c, !.op = "find", !.params = params,
                                         !.forceLoad = forceLoad /\ w.cfg.watch])
        t == [NoTask EXCEPT !.kind = kind, !.coll = c, !.stage = "fetch",
                            !.mask = mask, !.tok = tok, !.params = params]
    IN IF FALSE
       THEN [w EXCEPT !.tasks = Append(w.tasks,
                [t EXCEPT !.valued = TRUE,
                          !.items = IF params.orderBy # ""
                                    THEN SortBy(cachedItems, params.orderBy)
                                    ELSE cachedItems,
                          !.total = Len(cachedItems),
                          !.got = cachedItems])]
       ELSE IF pending
       THEN [w EXCEPT !.tasks = Append(w.tasks,
                [t EXCEPT !.waits = {w.pendingRequests[c][params]},
                          !.origin = w.pendingRequests[c][params]])]
       ELSE [w EXCEPT
                !.requests = w.requests \cup {r},
                !.pendingRequests[c] = MapSet(w.pendingRequests[c], params, r),
                !.tasks = Append(w.tasks, [t EXCEPT !.waits = {r}, !.origin = r])]

\* Collection.fetch; kind and tok tell whose continuation awaits the result
fetchAs(w, c, params, forceLoad, mask, kind, tok) ==
    LET queryKey == queryKeyOf(params)
        cached == queryKey # <<>> /\ params.where \in DOMAIN w.queries[c]
        cachedItems == w.queries[c][params.where].items.arr
        pending == params \in DOMAIN w.pendingRequests[c]
        r == NewReq(w, [NoRequest EXCEPT !.coll = c, !.op = "find", !.params = params,
                                         !.forceLoad = forceLoad /\ w.cfg.watch])
        t == [NoTask EXCEPT !.kind = kind, !.coll = c, !.stage = "fetch",
                            !.mask = mask, !.tok = tok, !.params = params]
    IN IF ~forceLoad /\ cached
       THEN [w EXCEPT !.tasks = Append(w.tasks,
                [t EXCEPT !.valued = TRUE,
                          !.items = IF params.orderBy # ""
                                    THEN SortBy(cachedItems, params.orderBy)
                                    ELSE cachedItems,
                          !.total = Len(cachedItems),
                          !.got = cachedItems])]
       ELSE IF pending
       THEN [w EXCEPT !.tasks = Append(w.tasks,
                [t EXCEPT !.waits = {w.pendingRequests[c][params]},
                          !.origin = w.pendingRequests[c][params]])]
       ELSE [w EXCEPT
                !.requests = w.requests \cup {r},
                !.pendingRequests[c] = MapSet(w.pendingRequests[c], params, r),
                !.tasks = Append(w.tasks, [t EXCEPT !.waits = {r}, !.origin = r])]

fetch(w, c, params, forceLoad, mask) ==
    fetchAs(w, c, params, forceLoad, mask, "fetch", 0)

\* Collection.fetchAll
fetchAll(w, c, pks, forceLoad, mask) ==
    LET chained(w1) ==
            [w1 EXCEPT !.tasks = Append(w1.tasks,
                [NoTask EXCEPT !.kind = "fetchAll", !.coll = c, !.stage = "fetch",
                               !.pks = pks, !.mask = mask, !.waits = w1.waits,
                               !.primary = FALSE]),
                       !.waits = {}]
    IN chained(fetchAllStart(w, c, Range(pks), forceLoad))

\* Collection.create / update / delete: the Data Source call.  What the
\* caller sends is not kept: the answer of the Data Source is what gets stored
sourceCall(w, c, op, pk) ==
    [w EXCEPT !.requests = w.requests \cup
        {NewReq(w, [NoRequest EXCEPT !.coll = c, !.op = op, !.pk = pk])}]

----------------------------------------------------------------------------
(* view.ts: the calls on a CollectionView *)

\* currentPage * pageSize, where a currentPage of null counts as 0
PageOffset(v) == IF v.currentPage = Undef THEN 0 ELSE v.currentPage * v.pageSize

getFilterParams(w) ==
    IF w.view.kind = "CollectionView"
    THEN [where |-> w.view.query, orderBy |-> w.view.orderBy,
          limit |-> Undef, offset |-> Undef]
    ELSE [where |-> w.view.query, orderBy |-> w.view.orderBy,
          limit |-> w.view.pageSize, offset |-> PageOffset(w.view)]

\* CollectionView.load
load(w, fromCache) ==
    LET tok == FreshTok(w)
        params == getFilterParams(w)
        chained(hydrating, items) ==
            IF hydrating.err THEN hydrating
            ELSE [hydrating EXCEPT !.tasks = Append(hydrating.tasks,
                     [NoTask EXCEPT !.kind = "load", !.coll = ViewColl,
                                    !.stage = "hydrate", !.valued = TRUE,
                                    !.items = items,
                                    !.total = hydrating.total,
                                    !.params = params,
                                    !.waits = hydrating.waits, !.tok = tok]),
                                  !.waits = {}, !.arr = <<>>]
        hydrated(filtered) ==
            IF filtered.err THEN filtered
            ELSE chained(loadRelationsStart(filtered, ViewColl, filtered.arr,
                                            w.view.mask),
                         filtered.arr)
        fetchPromise(w0) ==
            IF fromCache
            THEN hydrated(filter(w0, ViewColl, params))
            ELSE fetchAs(w0, ViewColl, params, FALSE, w.view.mask, "load", tok)
        loadingPromise(w1) ==
            IF w1.err THEN w1 ELSE [w1 EXCEPT !.view.loadingPromise = tok]
    IN loadingPromise(fetchPromise(
          [w EXCEPT !.view.insertedActive = FALSE,
                    !.view.removedActive = FALSE,
                    !.view.loading = TRUE,
                    !.tasks = [i \in DOMAIN w.tasks |->
                        IF w.tasks[i].kind \in {"addItem", "load"}
                        THEN [w.tasks[i] EXCEPT !.clean = FALSE, !.sup = FALSE]
                        ELSE w.tasks[i]]]))

\* CollectionView.setQuery
setQuery(w, query, reload) ==
    LET reloaded(w1) == IF reload THEN load(w1, w1.view.fromCache) ELSE w1
    IN IF query = w.view.query THEN w
       ELSE reloaded([w EXCEPT !.view.query = query])

\* CollectionView.setOrderBy
setOrderBy(w, orderBy, reload) ==
    LET reloaded(w1) == IF reload THEN load(w1, w1.view.fromCache) ELSE w1
    IN reloaded([w EXCEPT !.view.orderBy = orderBy])

\* PaginatedView.setPage
setPage(w, page, reload) ==
    LET reloaded(w1) == IF reload THEN load(w1, w1.view.fromCache) ELSE w1
    IN reloaded([w EXCEPT !.view.currentPage = page])

\* LoadMoreView._reset: items and _pks are null again
reset(w) ==
    [w EXCEPT !.view.currentPage = Undef, !.view.items = <<>>,
              !.view.pks = {}, !.view.loaded = FALSE,
              !.view.fetched = {}, !.view.failed = FALSE,
              !.tasks = [i \in DOMAIN w.tasks |->
                            IF w.tasks[i].kind = "load"
                            THEN [w.tasks[i] EXCEPT !.gone = TRUE]
                            ELSE w.tasks[i]]]

\* LoadMoreView.loadMore
loadMore(w) ==
    LET advanced(w1) == load(w1, w1.view.fromCache)
    IN advanced([w EXCEPT !.view.currentPage =
                    IF w.view.currentPage = Undef THEN 0
                    ELSE w.view.currentPage + 1])

\* view.setQuery(query, reload), as the class of the view overrides it
viewSetQuery(w, query, reload) ==
    LET again(w1) == IF reload THEN loadMore(reset(w1)) ELSE w1
    IN CASE w.view.kind = "PaginatedView" ->
                setQuery([w EXCEPT !.view.currentPage = 0], query, reload)
         [] w.view.kind = "LoadMoreView" -> again(setQuery(w, query, FALSE))
         [] OTHER -> setQuery(w, query, reload)

\* view.setOrderBy(orderBy, reload), as the class of the view overrides it
viewSetOrderBy(w, orderBy, reload) ==
    LET again(w1) == IF reload THEN loadMore(reset(w1)) ELSE w1
    IN CASE w.view.kind = "PaginatedView" ->
                setOrderBy([w EXCEPT !.view.currentPage = 0], orderBy, reload)
         [] w.view.kind = "LoadMoreView" -> again(setOrderBy(w, orderBy, FALSE))
         [] OTHER -> setOrderBy(w, orderBy, reload)

----------------------------------------------------------------------------
(* What a Data Source may answer (dataSource.ts): findOne a raw item with  *)
(* the requested pk; find the raw items matching where, in orderBy order,  *)
(* cut by offset and limit; findAll raw items for some of the pks.         *)

Authors == {Null} \cup UserPks

Raws(c) ==
    IF c = "Posts"
    THEN [id : PostPks, text : Texts, author_id : Authors]
    ELSE [id : UserPks, text : {Null}, author_id : {Null}]

PksOf(c) == IF c = "Posts" THEN PostPks ELSE UserPks

RECURSIVE SeqOfFn(_, _)
SeqOfFn(f, S) ==
    IF S = {} THEN <<>>
    ELSE <<f[MinOf(S)]>> \o SeqOfFn(f, S \ {MinOf(S)})

\* one raw item per pk of some subset of pks, in ascending pk order
RawLists(c, pks, allowed) ==
    UNION {{SeqOfFn(f, S) : f \in {g \in [S -> allowed] : \A p \in S : g[p].id = p}} :
              S \in SUBSET pks}

Cut(s, params) ==
    Sliced(IF params.orderBy # "" THEN SortBy(s, params.orderBy) ELSE s, params)

Answers(req, allowed) ==
    CASE req.op = "findOne" ->
            {<<x>> : x \in {y \in allowed : y.id = req.pk}}
      [] req.op = "find" ->
            {Cut(s, req.params) :
                s \in RawLists(req.coll, PksOf(req.coll),
                               {x \in allowed : CriteriaTest(x, req.params.where)})}
      [] req.op = "findAll" -> RawLists(req.coll, req.pks, allowed)
      [] req.op = "create" -> {<<x>> : x \in allowed}
      [] req.op = "update" -> {<<x>> : x \in {y \in allowed : y.id = req.pk}}
      [] OTHER -> {<<>>}

----------------------------------------------------------------------------
(* db.ts and the constructor of Collection: a DB whose collections are     *)
(* created one by one.  db.config holds what the application will pass to  *)
(* createCollection under each name: the relations, in declaration order.  *)
(* db.bindings are the listeners on collectionCreated of the relations     *)
(* whose target did not exist yet, in the order they were added; db.wired  *)
(* counts the calls of addRelation per relation.                           *)

primaryKey == "id"

\* an option of a relation config that is not given
Absent == ""

NewDB(config) ==
    [config |-> config, collections |-> {},
     relations |-> [n \in DOMAIN config |-> EmptyMap],
     foreignKeys |-> [n \in DOMAIN config |-> EmptyMap],
     backRefs |-> [n \in DOMAIN config |-> EmptyMap],
     indexed |-> [n \in DOMAIN config |-> {}],
     props |-> [n \in DOMAIN config |-> {}],
     bindings |-> <<>>, wired |-> EmptyMap, err |-> FALSE]

NoDB == NewDB(EmptyMap)

\* the pure call under examination: the function, its arguments and, once it
\* returned, its value
NoCall == [fn |-> "", args |-> <<>>, returned |-> FALSE, ret |-> Null]

\* Collection.getDefaultForeignKey, the related collection having the
\* primary key 'id'
getDefaultForeignKey(field, many) ==
    IF many THEN field \o "_" \o primaryKey \o "s"
    ELSE field \o "_" \o primaryKey

\* a variant of addRelation that registers no back reference
addRelationForward(d, owner, rel) ==
    LET foreignKey == IF rel.foreignKey = Absent
                      THEN getDefaultForeignKey(rel.field, rel.many)
                      ELSE rel.foreignKey
        counted == [d EXCEPT !.wired = MapSet(@, <<owner, rel.field>>,
                                              MapGet(@, <<owner, rel.field>>) + 1)]
    IN IF rel.collection \notin d.collections \/ rel.field \in d.props[owner]
       THEN [counted EXCEPT !.err = TRUE]
       ELSE [counted EXCEPT
                !.relations[owner] = MapSet(@, rel.field, [rel EXCEPT !.foreignKey = foreignKey]),
                !.foreignKeys[owner] = MapSet(@, foreignKey, rel.field),
                !.props[owner] = @ \cup {rel.field}]

\* Collection.addRelation: getCollection throws when the related collection
\* does not exist; the relation and its foreign key are registered before
\* the back reference is looked at
addRelation(d, owner, rel) ==
    LET foreignKey == IF rel.foreignKey = Absent
                      THEN getDefaultForeignKey(rel.field, rel.many)
                      ELSE rel.foreignKey
        counted == [d EXCEPT !.wired = MapSet(@, <<owner, rel.field>>,
                                              MapGet(@, <<owner, rel.field>>) + 1)]
        backRef(d1) ==
            IF rel.backRef = Absent THEN d1
            ELSE IF rel.backRef \in d1.props[rel.collection] THEN [d1 EXCEPT !.err = TRUE]
            ELSE [d1 EXCEPT
                    !.backRefs[rel.collection] =
                        MapSet(@, rel.backRef, [collection |-> owner,
                                                foreignKey |-> foreignKey]),
                    !.indexed[owner] = @ \cup {foreignKey},
                    !.props[rel.collection] = @ \cup {rel.backRef}]
    IN IF rel.collection \notin d.collections \/ rel.field \in d.props[owner]
       THEN [counted EXCEPT !.err = TRUE]
       ELSE backRef([counted EXCEPT
                !.relations[owner] = MapSet(@, rel.field, [rel EXCEPT !.foreignKey = foreignKey]),
                !.foreignKeys[owner] = MapSet(@, foreignKey, rel.field),
                !.props[owner] = @ \cup {rel.field}])

\* the constructor of Collection, for (let field in config.relations)
RECURSIVE declare(_, _, _)
declare(d, owner, rels) ==
    IF rels = <<>> \/ d.err THEN d
    ELSE declare(IF rels[1].collection \in d.collections
                 THEN addRelation(d, owner, rels[1])
                 ELSE [d EXCEPT !.bindings = Append(@, [owner |-> owner, rel |-> rels[1]])],
                 owner, Tail(rels))

\* db.collectionCreated.dispatch(collection): the bindings present when the
\* dispatch starts are called in the order they were added; a listener whose
\* relation names the new collection wires it and detaches its binding; a
\* listener that throws ends the dispatch
RECURSIVE dispatchCreated(_, _, _)
dispatchCreated(d, name, bindings) ==
    IF bindings = <<>> \/ d.err THEN d
    ELSE LET b == bindings[1]
             detached(d1) ==
                 IF d1.err THEN d1
                 ELSE [d1 EXCEPT !.bindings = SelectSeq(@, LAMBDA x : x # b)]
         IN dispatchCreated(IF b.rel.collection = name
                            THEN detached(addRelation(d, b.owner, b.rel))
                            ELSE d,
                            name, Tail(bindings))

\* DB.createCollection(name, config)
createCollection(d, name) ==
    LET constructed == declare(d, name, d.config[name])
        created == [constructed EXCEPT !.collections = @ \cup {name}]
    IN IF constructed.err THEN constructed
       ELSE dispatchCreated(created, name, created.bindings)

----------------------------------------------------------------------------
(* Initial states and actions *)

NoView ==
    [attached |-> FALSE, items |-> <<>>, pks |-> {}, loaded |-> FALSE,
     loading |-> FALSE, loadingPromise |-> 0, itemLoadingPromises |-> EmptyMap,
     insertedActive |-> FALSE, removedActive |-> FALSE, query |-> {},
     orderBy |-> "id", fromCache |-> FALSE, mask |-> FALSE,
     kind |-> "CollectionView", currentPage |-> Undef, pageSize |-> Undef,
     total |-> NoTotal, fetched |-> {}, failed |-> FALSE, disposed |-> FALSE]

\* fetched and failed only record, for a LoadMoreView, what its loads since
\* the last _reset delivered: the pks of the pages and whether one failed
\* new CollectionView(Posts, {where, orderBy, loadImmediately: false, ...})
NewView(where, orderBy, fromCache, mask) ==
    [NoView EXCEPT !.attached = TRUE, !.insertedActive = TRUE,
                   !.removedActive = TRUE, !.query = where,
                   !.orderBy = orderBy, !.fromCache = fromCache, !.mask = mask]

\* new PaginatedView(Posts, {where, orderBy, pageSize, loadImmediately:
\* false}): the constructor of CollectionView calls setOrderBy, which sets
\* currentPage
NewPaginatedView(where, orderBy, pageSize) ==
    [NewView(where, orderBy, FALSE, FALSE) EXCEPT
        !.kind = "PaginatedView", !.currentPage = 0, !.pageSize = pageSize]

\* new LoadMoreView(Posts, {where, orderBy, pageSize, fromCache,
\* loadImmediately: false})
NewLoadMoreView(where, orderBy, pageSize, fromCache) ==
    [NewView(where, orderBy, fromCache, FALSE) EXCEPT
        !.kind = "LoadMoreView", !.pageSize = pageSize]

InitCollections ==
    /\ index = [c \in Colls |-> UniqueIndex(FALSE)]
    /\ indexes = [c \in Colls |-> [f \in IndexedFields(c) |-> EmptyMap]]
    /\ queries = [c \in Colls |-> EmptyMap]
    /\ pendingRequests = [c \in Colls |-> EmptyMap]
    /\ pendingItemRequests = [c \in Colls |-> EmptyMap]
    /\ requests = {}
    /\ tasks = <<>>
    /\ obs = [rejected |-> NoRequest, calls |-> 0, missing |-> {}, log |-> <<>>]

\* the DB of Posts and Users, complete: no collection is created any more,
\* and no pure call is under examination
InitDB ==
    /\ InitCollections
    /\ db = NoDB
    /\ pure = NoCall

Config(maxTasks, maxReqs, maxCalls, watch) ==
    [maxTasks |-> maxTasks, maxReqs |-> maxReqs, maxCalls |-> maxCalls,
     watch |-> watch, signals |-> FALSE]

\* cfg bounds the promises and requests in flight and, when maxCalls is not
\* 0, the calls the application makes; it tells whether the step's settled
\* promises and the last rejected request are kept on record, and whether
\* the step's signals are
Commit(w0) ==
    LET w == IF w0.cfg.watch THEN w0 ELSE purge(w0)
    IN
    /\ Cardinality({i \in DOMAIN w.tasks : InFlight(w.tasks[i])}) <= w.cfg.maxTasks
    /\ Cardinality(w.requests) <= w.cfg.maxReqs
    /\ w.cfg.maxCalls # 0 => w.obs.calls <= w.cfg.maxCalls
    /\ cfg' = w.cfg
    /\ index' = w.index
    /\ indexes' = w.indexes
    /\ queries' = w.queries
    /\ pendingRequests' = w.pendingRequests
    /\ pendingItemRequests' = w.pendingItemRequests
    /\ requests' = w.requests
    /\ tasks' = w.tasks
    /\ view' = w.view
    /\ obs' = w.obs
    /\ UNCHANGED <<db, pure>>

\* the application calls the library: the state the call starts from
Called ==
    IF cfg.maxCalls = 0 THEN purge(World)
    ELSE [purge(World) EXCEPT !.obs.calls = obs.calls + 1]

NoneRunnable == \A i \in DOMAIN tasks : ~Runnable(tasks[i])

FetchOne(c, pk, forceLoad, mask) ==
    Commit(fetchOne(Called, c, pk, forceLoad, mask))

Fetch(c, params, forceLoad, mask) ==
    Commit(fetch(Called, c, params, forceLoad, mask))

FetchAll(c, pks, forceLoad, mask) ==
    Commit(fetchAll(Called, c, pks, forceLoad, mask))

Create(c) ==
    Commit(sourceCall(Called, c, "create", Null))

Update(c, pk) ==
    Commit(sourceCall(Called, c, "update", pk))

Delete(c, pk) ==
    Commit(sourceCall(Called, c, "delete", pk))

Clear(c) ==
    Commit(clear(Called, c))

Load(fromCache) ==
    /\ view.attached
    /\ Commit(load(Called, fromCache))

SetQuery(query, reload) ==
    /\ view.attached
    /\ Commit(viewSetQuery(Called, query, reload))

SetOrderBy(orderBy, reload) ==
    /\ view.attached
    /\ Commit(viewSetOrderBy(Called, orderBy, reload))

\* db.createCollection(name, db.config[name]); a name that is already
\* defined throws before anything changes
CreateCollection(name) ==
    /\ ~db.err
    /\ name \notin db.collections
    /\ db' = createCollection(db, name)
    /\ UNCHANGED <<index, indexes, queries, pendingRequests, pendingItemRequests,
                   requests, tasks, view, obs, cfg, pure>>

\* view.dispose()
Dispose ==
    /\ view.attached
    /\ ~view.disposed
    /\ Commit(dispose(Called))

SetPage(page, reload) ==
    /\ view.kind = "PaginatedView"
    /\ Commit(setPage(Called, page, reload))

LoadMore ==
    /\ view.kind = "LoadMoreView"
    /\ Commit(loadMore(Called))

\* Nothing waits on the promise of a create, update or delete, so the
\* requests of one such call are interchangeable: one of them stands for all
Answerable(r) ==
    /\ r \in requests
    /\ r.op \in {"create", "update", "delete"} =>
            \A x \in requests : [x EXCEPT !.n = 0] = [r EXCEPT !.n = 0] => x.n <= r.n

\* the Data Source resolves request r with data
Respond(r, data) ==
    /\ Answerable(r)
    /\ NoneRunnable
    /\ Commit(settle(purge(World), r, TRUE, data))

\* the Data Source resolves the find r from the matching items all: with
\* the slice of them that r asks for, and their number as its total
RespondPage(r, all) ==
    /\ Answerable(r)
    /\ NoneRunnable
    /\ r.op = "find"
    /\ Commit(settle([purge(World) EXCEPT !.total = Len(all)], r, TRUE,
                     Cut(all, r.params)))

\* the Data Source rejects request r
Fail(r) ==
    /\ Answerable(r)
    /\ NoneRunnable
    /\ Commit(settle(purge(World), r, FALSE, <<>>))

\* the Data Source resolves request r with one item whose back reference
\* field holds embeddedItems; an insert that throws rejects the promise
RespondEmbedded(r, data, embeddedItems) ==
    LET inserted(w1) == IF w1.err THEN settle([w1 EXCEPT !.err = FALSE], r, FALSE, <<>>)
                        ELSE settle(w1, r, TRUE, data)
    IN /\ Answerable(r)
       /\ NoneRunnable
       /\ r.op = "findOne"
       /\ Commit(inserted(insertBackRefs(purge(World), r.coll, data[1], embeddedItems)))

\* the continuations of already resolved promises run
RunReady ==
    /\ ~NoneRunnable
    /\ Commit(runReady(purge(World)))

----------------------------------------------------------------------------
(* Fetch coalescing: concurrent fetchOne / fetch / fetchAll calls on Posts *)

MaxFetchPk == 1
MaxFetchTasks == 2
MaxFetchReqs == 2

FetchPks == 1..MaxFetchPk

Param(where, orderBy, limit) ==
    [where |-> where, orderBy |-> orderBy, limit |-> limit, offset |-> Undef]

FetchParams == {Param({}, "", Undef), Param({<<"text", 1>>}, "text", Undef)}

FetchRaws(c) == {x \in Raws(c) : x.author_id = Null /\ x.id \in FetchPks}

RECURSIVE UpTo(_)
UpTo(n) == IF n = 0 THEN <<>> ELSE Append(UpTo(n - 1), n)

InitFetch ==
    /\ InitDB
    /\ view = NoView
    /\ cfg = Config(MaxFetchTasks, MaxFetchReqs, 0, TRUE)

NextFetch ==
    \/ \E pk \in FetchPks, forceLoad \in BOOLEAN :
            FetchOne("Posts", pk, forceLoad, FALSE)
    \/ \E params \in FetchParams, forceLoad \in BOOLEAN :
            Fetch("Posts", params, forceLoad, FALSE)
    \/ \E n \in FetchPks, forceLoad \in BOOLEAN :
            FetchAll("Posts", UpTo(n), forceLoad, FALSE)
    \/ \E r \in requests :
            \E data \in Answers(r, FetchRaws(r.coll)) : Respond(r, data)
    \/ \E r \in requests : Fail(r)
    \/ RunReady

SpecFetch == InitFetch /\ [][NextFetch]_vars

\* C1: while a findOne for pk is in flight every fetchOne caller chained on
\* it waits on that one request and no second findOne for pk exists; once it
\* has succeeded each of those callers holds the snapshot inserted from its
\* response, which is the one the index stores
FetchOneShared ==
    \A pk \in FetchPks :
        LET calls == {r \in requests : r.coll = "Posts" /\ r.op = "findOne" /\ r.pk = pk}
        IN /\ Cardinality(calls) <= 1
           /\ \A i \in DOMAIN tasks :
                LET t == tasks[i]
                IN (t.kind = "fetchOne" /\ t.pk = pk /\ t.origin.op = "findOne") =>
                      /\ t.stage = "fetch" => (calls # {} /\ t.waits = calls)
                      /\ t.stage = "ok" =>
                            /\ t.items = t.got
                            /\ t.items = <<UIGet(index["Posts"], pk)>>
                            /\ t.origin \notin requests

\* two fetchOne callers of one findOne request, both resolved
FetchOneSharedReached ==
    \E i, j \in DOMAIN tasks :
        /\ i < j
        /\ tasks[i].kind = "fetchOne" /\ tasks[j].kind = "fetchOne"
        /\ tasks[i].stage = "ok" /\ tasks[j].stage = "ok"
        /\ tasks[i].origin.op = "findOne"
        /\ tasks[i].origin = tasks[j].origin
        /\ tasks[i].items = tasks[j].items

\* C2: fetch calls with the same params issued while the first is in flight
\* all wait on one find request, and each resolves to the array that request's
\* response produced
FetchShared ==
    \A params \in FetchParams :
        LET calls == {r \in requests : r.coll = "Posts" /\ r.op = "find"
                                        /\ r.params = params}
        IN /\ Cardinality(calls) <= 1
           /\ \A i \in DOMAIN tasks :
                LET t == tasks[i]
                IN (t.kind = "fetch" /\ t.params = params /\ t.origin.op = "find") =>
                      /\ t.origin.params = params
                      /\ t.stage = "fetch" => (calls # {} /\ t.waits = calls)
                      /\ t.stage = "ok" => (t.items = t.got /\ t.origin \notin requests)

\* two fetch callers of one find request, both resolved with a non-empty array
FetchSharedReached ==
    \E i, j \in DOMAIN tasks :
        /\ i < j
        /\ tasks[i].kind = "fetch" /\ tasks[j].kind = "fetch"
        /\ tasks[i].stage = "ok" /\ tasks[j].stage = "ok"
        /\ tasks[i].origin.op = "find"
        /\ tasks[i].origin = tasks[j].origin
        /\ tasks[i].items # <<>>
        /\ tasks[i].items = tasks[j].items

\* the promises that were pending before the step, in the order of tasks'
Waiting == SelectSeq(tasks, InFlight)

\* what the call that issued request r does when it is made again now
Again(r) ==
    LET w == purge(World)
    IN CASE r.op = "findOne" -> fetchOne(w, r.coll, r.pk, r.forceLoad, FALSE)
         [] r.op = "find" -> fetch(w, r.coll, r.params, r.forceLoad, FALSE)
         [] OTHER -> fetchAllStart(w, r.coll, r.pks, r.forceLoad)

\* the call that issued r can now be answered from the index or the query cache
Stored(r) ==
    /\ ~r.forceLoad
    /\ CASE r.op = "findOne" -> UIHas(index[r.coll], r.pk)
         [] r.op = "find" -> queryKeyOf(r.params) # <<>>
                             /\ r.params.where \in DOMAIN queries[r.coll]
         [] OTHER -> \A pk \in r.pks : UIHas(index[r.coll], pk)

\* the pks of r that a call without forceLoad does not find in the index
Missing(r) == {pk \in r.pks : r.forceLoad \/ ~UIHas(index[r.coll], pk)}

\* x is a new request of the call that issued r, for what is not stored
Renewed(r, x) ==
    /\ [x EXCEPT !.n = 0, !.pks = {}] = [r EXCEPT !.n = 0, !.pks = {}]
    /\ x.pks = Missing(r)

Unregistered(r) ==
    /\ \A pk \in DOMAIN pendingItemRequests[r.coll] : pendingItemRequests[r.coll][pk] # r
    /\ \A k \in DOMAIN pendingRequests[r.coll] : pendingRequests[r.coll][k] # r

RejectionReaches(r) ==
    /\ Len(tasks') = Len(Waiting)
    /\ \A i \in DOMAIN Waiting : r \in Waiting[i].waits => tasks'[i].stage = "err"

Resolved(t) ==
    /\ t.stage = "ok" /\ t.got # <<>>
    /\ t.origin \in requests /\ t.origin \notin requests'

\* C12: when the Data Source returns a payload equal to the entity cached
\* under its pk, the insert returns that very entity and the index keeps it;
\* a findOne that returns such a payload changes nothing in the collection
EqualInsertKept ==
    [][\A j \in DOMAIN tasks' :
          Resolved(tasks'[j]) =>
              \A x \in Range(tasks'[j].got) :
                  LET previous == UIGet(index[tasks'[j].coll], x.pk)
                  IN (previous # NoEnt /\ isEqual(previous, x)) =>
                        /\ x = previous
                        /\ UIGet(index'[tasks'[j].coll], x.pk) = previous
                        /\ tasks'[j].origin.op = "findOne" =>
                                /\ index' = index
                                /\ indexes' = indexes
                                /\ queries' = queries]_vars

\* a forced fetchOne has resolved to the snapshot that a query cached
\* before it still holds
EqualInsertKeptReached ==
    \E j \in DOMAIN tasks :
        /\ tasks[j].kind = "fetchOne" /\ tasks[j].stage = "ok"
        /\ tasks[j].origin.op = "findOne" /\ tasks[j].got # <<>>
        /\ \E q \in DOMAIN queries[tasks[j].coll] :
                tasks[j].got[1] \in Range(queries[tasks[j].coll][q].items.arr)

\* a fetchOne that was answered from the index has resolved to the snapshot
\* the index holds
CachedOneResolved ==
    \A i \in DOMAIN tasks :
        (tasks[i].kind = "fetchOne" /\ tasks[i].stage = "ok"
         /\ tasks[i].origin = NoRequest) =>
            /\ UIHas(index[tasks[i].coll], tasks[i].pk)
            /\ tasks[i].items = <<UIGet(index[tasks[i].coll], tasks[i].pk)>>

\* C15: fetchOne without forceLoad of a pk the index holds asks the Data
\* Source nothing, and its promise resolves to the snapshot the index holds
CachedOneLocal ==
    /\ []CachedOneResolved
    /\ [][\A pk \in FetchPks :
            (UIHas(index["Posts"], pk) /\ FetchOne("Posts", pk, FALSE, FALSE)) =>
                /\ requests' = requests
                /\ pendingItemRequests' = pendingItemRequests
                /\ \E i \in DOMAIN tasks' :
                        /\ tasks'[i].kind = "fetchOne" /\ tasks'[i].origin = NoRequest
                        /\ tasks'[i].items = <<UIGet(index["Posts"], pk)>>]_vars

\* a fetchOne answered from the index has resolved while a request for the
\* same pk is in flight
CachedOneLocalReached ==
    \E i \in DOMAIN tasks :
        /\ tasks[i].kind = "fetchOne" /\ tasks[i].stage = "ok"
        /\ tasks[i].origin = NoRequest
        /\ \E r \in requests : r.op = "findOne" /\ r.pk = tasks[i].pk

----------------------------------------------------------------------------
(* Cache and indexes: fetches interleaved with create, update, delete, clear *)

MaxCachePk == 2
MaxCacheTasks == 1
MaxCacheReqs == 2

CachePks == 1..MaxCachePk

CacheParams == {Param({}, "", Undef), Param({<<"text", 1>>}, "", Undef)}

CacheRaws(c) == {x \in Raws(c) : x.author_id \in {Null, 1} /\ x.id \in CachePks}

InitCache ==
    /\ InitDB
    /\ view = NoView
    /\ cfg = Config(MaxCacheTasks, MaxCacheReqs, 0, FALSE)

NextCache ==
    \/ \E params \in CacheParams, forceLoad \in BOOLEAN :
            Fetch("Posts", params, forceLoad, FALSE)
    \/ Create("Posts")
    \/ \E pk \in CachePks : Update("Posts", pk)
    \/ \E pk \in CachePks : Delete("Posts", pk)
    \/ Clear("Posts")
    \/ \E r \in requests :
            \E data \in Answers(r, CacheRaws(r.coll)) : Respond(r, data)
    \/ \E r \in requests : Fail(r)
    \/ RunReady

SpecCache == InitCache /\ [][NextCache]_vars

\* C4: every entity of every cached query is the snapshot the index stores
\* under its pk, and satisfies the where of that query
QueryCacheSound ==
    \A c \in Colls : \A q \in DOMAIN queries[c] :
        \A e \in Range(queries[c][q].items.arr) :
            /\ UIHas(index[c], e.pk)
            /\ UIGet(index[c], e.pk) = e
            /\ CriteriaTest(e, queries[c][q].where)

\* both queries are cached while a request is in flight, the filtered one
\* holding fewer entities than the unfiltered one
QueryCacheSoundReached ==
    /\ requests # {}
    /\ DOMAIN queries["Posts"] = {p.where : p \in CacheParams}
    /\ UILength(queries["Posts"][{}].items) = MaxCachePk
    /\ UILength(queries["Posts"][{<<"text", 1>>}].items) = 1

\* C5: for the indexed field author_id, every stored post with an author is
\* in the bucket of that author, every entity of a bucket is the stored
\* snapshot of its pk and has the bucket's author, and no bucket is empty
IndexesCoherent ==
    \A c \in Colls : \A f \in IndexedFields(c) :
        /\ \A e \in Range(index[c].arr) :
                e[f] # Null =>
                    /\ e[f] \in DOMAIN indexes[c][f]
                    /\ UIHas(indexes[c][f][e[f]], e.pk)
                    /\ UIGet(indexes[c][f][e[f]], e.pk) = e
        /\ \A k \in DOMAIN indexes[c][f] :
                /\ UILength(indexes[c][f][k]) > 0
                /\ \A x \in Range(indexes[c][f][k].arr) :
                        /\ UIGet(index[c], x.pk) = x
                        /\ x[f] = k

\* one post in the bucket of author 1 and one post without an author
IndexesCoherentReached ==
    /\ 1 \in DOMAIN indexes["Posts"]["author_id"]
    /\ UILength(indexes["Posts"]["author_id"][1]) = 1
    /\ UILength(index["Posts"]) = 2

----------------------------------------------------------------------------
(* Overlapping loads of one view of Posts that loads the author relation,   *)
(* with updates of the posts arriving while a load is in flight             *)

MaxLoadPk == 1
MaxLoadTasks == 2
MaxLoadReqs == 2
MaxLoadCalls == 3

LoadPks == 1..MaxLoadPk

LoadQueries == {{}, {<<"text", 1>>}}

LoadRaws(c) ==
    IF c = "Posts"
    THEN {x \in Raws(c) : x.author_id \in {Null, 1} /\ x.id \in LoadPks}
    ELSE {x \in Raws(c) : x.id = 1}

InitLoad ==
    /\ InitDB
    /\ view = NewView({<<"text", 1>>}, "text", FALSE, TRUE)
    /\ cfg = Config(MaxLoadTasks, MaxLoadReqs, MaxLoadCalls, TRUE)

NextLoad ==
    \/ \E fromCache \in BOOLEAN : Load(fromCache)
    \/ \E query \in LoadQueries, reload \in BOOLEAN : SetQuery(query, reload)
    \/ \E pk \in LoadPks : Update("Posts", pk)
    \/ \E r \in requests :
            \E data \in Answers(r, LoadRaws(r.coll)) : Respond(r, data)
    \/ \E r \in requests : Fail(r)
    \/ RunReady

SpecLoad == InitLoad /\ [][NextLoad]_vars

\* C6: when a load of the view has settled, then if it is the load issued
\* last, view.items and _pks hold exactly its result, and if a later load
\* had been issued while it was in flight its continuation changed nothing,
\* whichever of the Data Source responses arrived first
LoadRaceSafe ==
    \A i \in DOMAIN tasks :
        (tasks[i].kind = "load" /\ ~InFlight(tasks[i])) =>
            /\ (tasks[i].stage = "ok" /\ tasks[i].latest) =>
                    /\ view.items = tasks[i].items
                    /\ view.pks = PkSet(tasks[i].items)
            /\ ~tasks[i].latest =>
                    /\ ~tasks[i].applied
                    /\ view.loadingPromise # tasks[i].tok

\* the response of the earlier load arrives after the later load has filled
\* the view, and carries a different result
LoadRaceSafeReached ==
    \E i \in DOMAIN tasks :
        /\ tasks[i].kind = "load" /\ tasks[i].stage = "ok"
        /\ ~tasks[i].latest
        /\ view.loaded /\ ~view.loading
        /\ view.items # <<>>
        /\ tasks[i].items # <<>>
        /\ tasks[i].items # view.items

\* C7: when the load issued last has settled and an entity of its result
\* was replaced in the collection while the load waited for its relations,
\* the view holds exactly one entry for that pk: the new snapshot
LoadSeesReplacement ==
    \A i \in DOMAIN tasks :
        (tasks[i].kind = "load" /\ tasks[i].stage = "ok" /\ tasks[i].latest
            /\ NoneRunnable) =>
            \A pk \in tasks[i].replaced :
                isFiltered(World, UIGet(index[ViewColl], pk)) =>
                    /\ Cardinality({k \in DOMAIN view.items :
                                        view.items[k].pk = pk}) = 1
                    /\ \A k \in DOMAIN view.items :
                            view.items[k].pk = pk =>
                                view.items[k] = UIGet(index[ViewColl], pk)

----------------------------------------------------------------------------
(* Loads in flight: the steps of the racing loads, with each step's signals *)
(* and listener calls on record                                             *)

InitBusy ==
    /\ InitDB
    /\ view = NewView({<<"text", 1>>}, "text", FALSE, TRUE)
    /\ cfg = [Config(MaxLoadTasks, MaxLoadReqs, MaxLoadCalls, TRUE)
                EXCEPT !.signals = TRUE]

SpecBusy == InitBusy /\ [][NextLoad]_vars

\* the load issued last, as long as its promise is on record
NewestLoad == {i \in DOMAIN tasks : tasks[i].kind = "load" /\ tasks[i].clean}

\* the view listens to both signals
BindingsActive == view.insertedActive /\ view.removedActive

\* C18: while the load issued last is in flight, view.loading is true, both
\* bindings are inactive and no signal of the step reached a listener of the
\* view; when no load is in flight that was issued last, because it
\* resolved or was rejected, loading is false and both bindings are active
LoadingUntilSettled ==
    /\ (\E i \in NewestLoad : InFlight(tasks[i])) =>
            /\ view.loading
            /\ ~view.insertedActive /\ ~view.removedActive
    /\ NewestLoad # {} =>
            \A k \in DOMAIN obs.log :
                /\ obs.log[k].ev \in {"inserted", "removed"} => ~obs.log[k].active
                /\ obs.log[k].ev \notin {"onInjected", "onEjected"}
    /\ (\A i \in NewestLoad : ~InFlight(tasks[i])) =>
            /\ ~view.loading
            /\ BindingsActive

\* the load issued last was rejected while an earlier load is still in
\* flight; before, in the same step or earlier, the view was loaded
LoadingUntilSettledReached ==
    /\ \E i \in NewestLoad : tasks[i].stage = "err"
    /\ \E i \in DOMAIN tasks : tasks[i].kind = "load" /\ InFlight(tasks[i])
    /\ ~view.loading /\ BindingsActive

----------------------------------------------------------------------------
(* Setters: setQuery, setOrderBy and setPage on a CollectionView or a       *)
(* PaginatedView of one post per page, with the finds answered in any order *)

MaxSetPage == 1
MaxSetTasks == 2
MaxSetReqs == 2
MaxSetCalls == 3

SetPages == 0..MaxSetPage

SetOrders == {"text", "text-"}

SetRaws(c) == {x \in Raws(c) : x.author_id = Null}

\* what the Data Source may hold that matches the find r
Matching(r, allowed) ==
    RawLists(r.coll, PksOf(r.coll),
             {x \in allowed : CriteriaTest(x, r.params.where)})

InitSet ==
    /\ InitDB
    /\ view \in {NewView({}, "text", FALSE, FALSE),
                 NewPaginatedView({}, "text", 1)}
    /\ cfg = Config(MaxSetTasks, MaxSetReqs, MaxSetCalls, TRUE)

NextSet ==
    \/ \E query \in LoadQueries, reload \in BOOLEAN : SetQuery(query, reload)
    \/ \E orderBy \in SetOrders, reload \in BOOLEAN : SetOrderBy(orderBy, reload)
    \/ \E page \in SetPages, reload \in BOOLEAN : SetPage(page, reload)
    \/ \E r \in requests :
            \E all \in Matching(r, SetRaws(r.coll)) : RespondPage(r, all)
    \/ \E r \in requests : Fail(r)
    \/ RunReady

SpecSet == InitSet /\ [][NextSet]_vars

\* the call left the view as it was and started no load
ViewUntouched ==
    /\ view' = view
    /\ requests' = requests
    /\ tasks' = SelectSeq(tasks, InFlight)

\* C19: a setQuery with a query equal to the view's query, and a setOrderBy
\* with an ordering equal to the view's ordering, change nothing of the
\* view, currentPage included, and start no load
EqualSetterNoop ==
    [][/\ \A reload \in BOOLEAN :
            SetQuery(view.query, reload) => ViewUntouched
       /\ \A reload \in BOOLEAN :
            SetOrderBy(view.orderBy, reload) => ViewUntouched]_vars

----------------------------------------------------------------------------
(* Load more: loadMore calls on a LoadMoreView of one post per page, and    *)
(* setOrderBy calls that reset it, with the finds answered in any order     *)

MaxMoreTasks == 2
MaxMoreReqs == 2
MaxMoreCalls == 3

InitMore ==
    /\ InitDB
    /\ \E fromCache \in BOOLEAN : view = NewLoadMoreView({}, "text", 1, fromCache)
    /\ cfg = Config(MaxMoreTasks, MaxMoreReqs, MaxMoreCalls, TRUE)

NextMore ==
    \/ LoadMore
    \/ \E orderBy \in SetOrders : SetOrderBy(orderBy, TRUE)
    \/ \E r \in requests :
            \E all \in Matching(r, SetRaws(r.coll)) : RespondPage(r, all)
    \/ \E r \in requests : Fail(r)
    \/ RunReady

SpecMore == InitMore /\ [][NextMore]_vars

\* every load of the view has settled, and none issued since the last reset
\* was rejected
PagesSettled ==
    /\ view.kind = "LoadMoreView" /\ view.currentPage # Undef
    /\ ~view.failed
    /\ \A i \in DOMAIN tasks : tasks[i].kind = "load" => ~InFlight(tasks[i])

\* C20: when the loads of the loadMore calls since the last reset have all
\* resolved, view.items holds exactly the items of their pages, once per pk
\* and in the order of the view's comparator
PagesAccumulated ==
    PagesSettled =>
        /\ PkSet(view.items) = view.fetched
        /\ Len(view.items) = Cardinality(PkSet(view.items))
        /\ IsSortedBy(view.items, view.orderBy)

----------------------------------------------------------------------------
(* A live view of the posts of one author that loads the author relation:  *)
(* loads, changes of the ordering, and creates, updates and deletes of posts *)

MaxLivePk == 2
MaxLiveTasks == 2
MaxLiveReqs == 2
MaxLiveCalls == 3

LivePks == 1..MaxLivePk

LiveQueries == {{}, {<<"text", 1>>}}

LiveOrders == {"text", "text-"}

LiveRaws(c) ==
    IF c = "Posts"
    THEN {x \in Raws(c) : x.id \in LivePks /\ x.author_id \in {Null, 1}}
    ELSE {x \in Raws(c) : x.id = 1}

InitLive ==
    /\ InitDB
    /\ view = NewView({<<"author_id", 1>>}, "text", FALSE, TRUE)
    /\ cfg = Config(MaxLiveTasks, MaxLiveReqs, MaxLiveCalls, TRUE)

NextLive ==
    \/ Load(FALSE)
    \/ \E orderBy \in LiveOrders, reload \in BOOLEAN : SetOrderBy(orderBy, reload)
    \/ Create("Posts")
    \/ \E pk \in LivePks : Update("Posts", pk)
    \/ \E pk \in LivePks : Delete("Posts", pk)
    \/ \E r \in requests :
            \E data \in Answers(r, LiveRaws(r.coll)) : Respond(r, data)
    \/ \E r \in requests : Fail(r)
    \/ RunReady

SpecLive == InitLive /\ [][NextLive]_vars

\* C9: whenever a view that has loaded is not loading, its items are sorted
\* by the view's current ordering and _pks is the set of pks of its items
ViewSortedAndIndexed ==
    (view.loaded /\ ~view.loading) =>
        /\ IsSortedBy(view.items, view.orderBy)
        /\ view.pks = PkSet(view.items)

\* the snapshot the collection stores under pk in a world given by its index
StoredPost(ix, pk) == UIGet(ix[ViewColl], pk)

\* the collection inserted a post under pk in this step
InsertedPost(pk) ==
    /\ UIHas(index'[ViewColl], pk)
    /\ StoredPost(index', pk) # StoredPost(index, pk)

\* the view was loaded and listening when the step began
Listening ==
    view.loaded /\ view.insertedActive /\ view.removedActive

\* the items of the view without the one at position k
Without(s, k) == Splice(s, k - 1, 1, <<>>)

\* a load has just replaced the items of the view
JustLoaded ==
    \E j \in DOMAIN tasks :
        tasks[j].kind = "load" /\ tasks[j].stage = "ok" /\ tasks[j].applied

\* a hydration that completed as the latest one for its pk put its entity
\* into the view, in order among the other items wherever these are in order
HydratedShown ==
    \A i \in DOMAIN tasks :
        (/\ tasks[i].kind = "addItem" /\ tasks[i].stage = "ok" /\ tasks[i].latest
         /\ ~JustLoaded) =>
            \E k \in DOMAIN view.items :
                /\ view.items[k] = tasks[i].items[1]
                /\ IsSortedBy(Without(view.items, k), view.orderBy)
                        => IsSortedBy(view.items, view.orderBy)

\* an inserted post that matches the query starts its hydration, one that
\* does not match is neither shown nor hydrated
InsertedFiltered ==
    \A pk \in LivePks :
        (Listening /\ InsertedPost(pk)) =>
            IF isFiltered(World, StoredPost(index', pk))
            THEN \E i \in DOMAIN tasks' :
                    /\ tasks'[i].kind = "addItem"
                    /\ tasks'[i].items = <<StoredPost(index', pk)>>
            ELSE /\ StoredPost(index', pk) \notin Range(view'.items)
                 /\ \A i \in DOMAIN tasks' :
                        tasks'[i].kind = "addItem"
                            => tasks'[i].items # <<StoredPost(index', pk)>>

\* the snapshot an insert replaced leaves the view
PreviousRemoved ==
    \A pk \in LivePks :
        (Listening /\ InsertedPost(pk) /\ UIHas(index[ViewColl], pk)) =>
            StoredPost(index, pk) \notin Range(view'.items)

\* C10: with the view loaded and its bindings active, an inserted post that
\* satisfies the query is hydrated and then appears in items at the position
\* the ordering gives it; one that does not satisfy the query is not added;
\* and the snapshot the insert replaced is no longer in items
InsertedReflected ==
    []HydratedShown /\ [][InsertedFiltered /\ PreviousRemoved]_vars

----------------------------------------------------------------------------
(* Hydration races: one post of a loaded view is created, replaced with     *)
(* another author and deleted while the authors are still being fetched     *)

MaxHydratePk == 1
MaxHydrateTasks == 2
MaxHydrateReqs == 2
MaxHydrateCalls == 3

HydratePks == 1..MaxHydratePk

HydrateRaws(c) == {x \in Raws(c) : x.id \in HydratePks /\ x.author_id # Null}

\* the authors the Data Source of Users knows
HydrateUsers == {x \in Raws("Users") : TRUE}

InitHydrate ==
    /\ InitDB
    /\ view = NewView({}, "text", FALSE, TRUE)
    /\ cfg = Config(MaxHydrateTasks, MaxHydrateReqs, MaxHydrateCalls, TRUE)

NextHydrate ==
    \/ Load(FALSE)
    \/ \E query \in LiveQueries : SetQuery(query, FALSE)
    \/ Create("Posts")
    \/ \E pk \in HydratePks : Update("Posts", pk)
    \/ \E pk \in HydratePks : Delete("Posts", pk)
    \/ \E r \in requests :
            \E data \in Answers(r, IF r.coll = "Posts" THEN HydrateRaws(r.coll)
                                   ELSE HydrateUsers) : Respond(r, data)
    \/ \E r \in requests : Fail(r)
    \/ RunReady

SpecHydrate == InitHydrate /\ [][NextHydrate]_vars

\* C8: when the hydration started for the replacement of a post whose own
\* hydration was still pending completes, the view holds exactly one entry
\* for the pk, the snapshot the collection stores; a hydration that was
\* superseded adds nothing, whichever of the two completes first
HydrationRaceSafe ==
    \A i \in DOMAIN tasks :
        (tasks[i].kind = "addItem" /\ tasks[i].stage = "ok") =>
            /\ tasks[i].sup =>
                    /\ tasks[i].latest
                    /\ Cardinality({k \in DOMAIN view.items :
                                        view.items[k].pk = tasks[i].pk}) = 1
                    /\ tasks[i].items[1] \in Range(view.items)
                    /\ tasks[i].items[1] = UIGet(index[ViewColl], tasks[i].pk)
                    /\ tasks[i].pk \in view.pks
            /\ ~tasks[i].latest => ~tasks[i].applied

\* the hydration of the replacement has completed and filled the view while
\* the hydration of the first insert, for another author, is still pending
HydrationRaceSafeReached ==
    \E i, j \in DOMAIN tasks :
        /\ tasks[i].kind = "addItem" /\ tasks[i].stage = "ok" /\ tasks[i].sup
        /\ tasks[j].kind = "addItem" /\ InFlight(tasks[j])
        /\ tasks[j].pk = tasks[i].pk
        /\ tasks[j].items[1].author_id # tasks[i].items[1].author_id
        /\ view.items = tasks[i].items

\* C11: a post that the collection removed while the view was listening and
\* while the hydration of its insert was pending is not in the view once that
\* hydration has completed, and as long as the pk is not stored again the
\* view does not list the pk
RemovedStaysOut ==
    \A i \in DOMAIN tasks :
        (tasks[i].kind = "addItem" /\ tasks[i].stage = "ok" /\ tasks[i].gone) =>
            /\ tasks[i].items[1] \notin Range(view.items)
            /\ ~UIHas(index[ViewColl], tasks[i].pk) =>
                    /\ tasks[i].pk \notin view.pks
                    /\ \A k \in DOMAIN view.items : view.items[k].pk # tasks[i].pk

----------------------------------------------------------------------------
(* Back references: users fetched with their posts embedded, next to posts  *)
(* created one by one                                                       *)

MaxBackPk == 2
MaxBackTasks == 1
MaxBackReqs == 2
MaxBackCalls == 3

BackPks == 1..MaxBackPk

BackRaws(c) ==
    IF c = "Posts" THEN {x \in Raws(c) : x.id \in BackPks /\ x.text = 1}
    ELSE Raws(c)

\* the arrays a user can come with: at most one post per pk
BackArrays == RawLists("Posts", BackPks, BackRaws("Posts"))

InitBack ==
    /\ InitDB
    /\ view = NoView
    /\ cfg = Config(MaxBackTasks, MaxBackReqs, MaxBackCalls, TRUE)

NextBack ==
    \/ \E pk \in UserPks, forceLoad \in BOOLEAN :
            FetchOne("Users", pk, forceLoad, FALSE)
    \/ Create("Posts")
    \/ \E r \in requests :
            \E data \in Answers(r, BackRaws(r.coll)) : Respond(r, data)
    \/ \E r \in requests :
            \E data \in Answers(r, BackRaws(r.coll)), embeddedItems \in BackArrays :
                r.coll = "Users" /\ RespondEmbedded(r, data, embeddedItems)
    \/ \E r \in requests : Fail(r)
    \/ RunReady

SpecBack == InitBack /\ [][NextBack]_vars

\* the pks of the posts filed under owner pk in the index on author_id
BucketPks(pk) ==
    IF pk \in DOMAIN indexes["Posts"]["author_id"]
    THEN PkSet(indexes["Posts"]["author_id"][pk].arr)
    ELSE {}

\* what the insert of user pk with the array embeddedItems does to Posts
Cascaded(pk, embeddedItems) ==
    LET given == {embeddedItems[k].id : k \in DOMAIN embeddedItems}
    IN /\ \A k \in DOMAIN embeddedItems :
            /\ UIHas(index'["Posts"], embeddedItems[k].id)
            /\ isEqual(UIGet(index'["Posts"], embeddedItems[k].id), embeddedItems[k])
       /\ \A x \in BucketPks(pk) \ given : ~UIHas(index'["Posts"], x)
       /\ \A x \in PostPks \ (BucketPks(pk) \cup given) :
            UIGet(index'["Posts"], x) = UIGet(index["Posts"], x)

\* C13: when a user arrives with an embedded array of posts, every element
\* of the array is stored in Posts, every post that was filed under the user
\* and is not in the array is removed from Posts, and every other post is
\* left as it was
BackRefCascade ==
    [][\A r \in requests :
          \A data \in Answers(r, BackRaws(r.coll)), embeddedItems \in BackArrays :
              (r.coll = "Users" /\ RespondEmbedded(r, data, embeddedItems))
                  => Cascaded(data[1].id, embeddedItems)]_vars

\* a user has just arrived with an array: a post filed under the user was
\* removed, one of another owner is still stored
BackRefCascadeReached ==
    /\ obs.missing # {}
    /\ \E i \in DOMAIN tasks :
            /\ tasks[i].kind = "fetchOne" /\ tasks[i].coll = "Users"
            /\ tasks[i].stage = "ok"
            /\ \E x \in Range(index["Posts"].arr) :
                    x.author_id \notin {Null, tasks[i].pk}

----------------------------------------------------------------------------
(* Ingestion: fetch and fetchAll on Posts with a Data Source that may       *)
(* return items without a primary key                                       *)

MaxIngestPk == 2
MaxIngestLen == 2
MaxIngestTasks == 1
MaxIngestReqs == 2

IngestPks == 1..MaxIngestPk

IngestRaws == [id : {Null} \cup IngestPks, text : {1}, author_id : {Null}]

\* what the Data Source returns for a find or a findAll
IngestLists == UNION {[1..n -> IngestRaws] : n \in 0..MaxIngestLen}

InitIngest ==
    /\ InitDB
    /\ view = NoView
    /\ cfg = Config(MaxIngestTasks, MaxIngestReqs, 0, TRUE)

NextIngest ==
    \/ \E forceLoad \in BOOLEAN :
            Fetch("Posts", Param({}, "", Undef), forceLoad, FALSE)
    \/ \E n \in IngestPks, forceLoad \in BOOLEAN :
            FetchAll("Posts", UpTo(n), forceLoad, FALSE)
    \/ \E r \in requests : \E data \in IngestLists : Respond(r, data)
    \/ \E r \in requests : Fail(r)
    \/ RunReady

SpecIngest == InitIngest /\ [][NextIngest]_vars

\* the promise of its request has just rejected task t
Rejected(t) ==
    /\ t.stage = "err"
    /\ t.origin \in requests /\ t.origin \notin requests'

\* C14: when a fetch or fetchAll fails, be it that the Data Source rejects
\* or that one of the returned items has no primary key, the index, the
\* secondary indexes and the cached queries are what they were before
FailureAtomic ==
    [][(\E j \in DOMAIN tasks' : Rejected(tasks'[j])) =>
            /\ index' = index
            /\ indexes' = indexes
            /\ queries' = queries]_vars

----------------------------------------------------------------------------
(* Cache hits: fetches of all posts in several orders, while posts are      *)
(* created and deleted and the collection is cleared                        *)

MaxHitPk == 2
MaxHitTasks == 1
MaxHitReqs == 2
MaxHitCalls == 3

HitPks == 1..MaxHitPk

HitParams == {Param({}, o, Undef) : o \in {"", "text", "text-"}}

HitRaws(c) == {x \in Raws(c) : x.author_id = Null /\ x.id \in HitPks}

InitHit ==
    /\ InitDB
    /\ view = NoView
    /\ cfg = Config(MaxHitTasks, MaxHitReqs, MaxHitCalls, TRUE)

NextHit ==
    \/ \E params \in HitParams, forceLoad \in BOOLEAN :
            Fetch("Posts", params, forceLoad, FALSE)
    \/ Create("Posts")
    \/ \E pk \in HitPks : Delete("Posts", pk)
    \/ Clear("Posts")
    \/ \E r \in requests :
            \E data \in Answers(r, HitRaws(r.coll)) : Respond(r, data)
    \/ \E r \in requests : Fail(r)
    \/ RunReady

SpecHit == InitHit /\ [][NextHit]_vars

\* the items a fetch with params gets from the cached set
Ordered(cachedItems, params) ==
    IF params.orderBy # "" THEN SortBy(cachedItems, params.orderBy) ELSE cachedItems

\* a fetch answered from the cached queries has resolved to the set that was
\* cached when it was called, in the order it asked for, with its length as
\* total
HitResolved ==
    \A i \in DOMAIN tasks :
        (tasks[i].kind = "fetch" /\ tasks[i].stage = "ok"
         /\ tasks[i].origin = NoRequest) =>
            /\ tasks[i].items = Ordered(tasks[i].got, tasks[i].params)
            /\ tasks[i].total = Len(tasks[i].got)

\* a fetch without forceLoad whose where is cached asks the Data Source
\* nothing and carries the cached set
HitLocal ==
    \A params \in HitParams :
        (params.where \in DOMAIN queries["Posts"]
         /\ Fetch("Posts", params, FALSE, FALSE)) =>
            /\ requests' = requests
            /\ pendingRequests' = pendingRequests
            /\ \E i \in DOMAIN tasks' :
                    /\ tasks'[i].kind = "fetch" /\ tasks'[i].origin = NoRequest
                    /\ tasks'[i].params = params
                    /\ tasks'[i].got = queries["Posts"][params.where].items.arr

\* a member of the set cached under where is removed or replaced in this step
MemberLost(where) ==
    \E x \in Range(queries["Posts"][where].items.arr) :
        UIGet(index'["Posts"], x.pk) # x

\* the set cached under where is no longer cached after this step
Dropped(where) ==
    where \in DOMAIN queries["Posts"] /\ where \notin DOMAIN queries'["Posts"]

\* C16 as stated: a cached set stays cached until one of its members is
\* removed or replaced, and meanwhile a fetch with its where, whatever the
\* order asked for, calls no find and resolves to the set in that order
HitWhileKept ==
    /\ []HitResolved
    /\ [][/\ HitLocal
          /\ \A where \in DOMAIN queries["Posts"] :
                Dropped(where) => MemberLost(where)]_vars

\* C16, amended: the same, with clear() as the other way to lose the set
HitWhileCached ==
    /\ []HitResolved
    /\ [][/\ HitLocal
          /\ \A where \in DOMAIN queries["Posts"] :
                Dropped(where) => (MemberLost(where) \/ Clear("Posts"))]_vars

\* a fetch has resolved from the cache to two posts in descending order of
\* text, the reverse of the order of the cached set
HitWhileCachedReached ==
    \E i \in DOMAIN tasks :
        /\ tasks[i].kind = "fetch" /\ tasks[i].stage = "ok"
        /\ tasks[i].origin = NoRequest
        /\ tasks[i].params.orderBy = "text-"
        /\ Len(tasks[i].items) = 2
        /\ tasks[i].items # tasks[i].got

----------------------------------------------------------------------------
(* Signals: the steps of the hydration races, with each step's signals,     *)
(* listener calls and settling on record                                    *)

InitSignal ==
    /\ InitDB
    /\ view = NewView({}, "text", FALSE, TRUE)
    /\ cfg = [Config(MaxHydrateTasks, MaxHydrateReqs, MaxHydrateCalls, TRUE)
                EXCEPT !.signals = TRUE]

SpecSignal == InitSignal /\ [][NextHydrate]_vars

\* the listener a signal calls when its binding is active
ListenerOf(ev) == IF ev = "inserted" THEN "onInjected" ELSE "onEjected"

\* C17: within the step in which the Data Source answers, every inserted and
\* removed signal is dispatched before the promise of the call settles, and a
\* signal whose binding is active has its listener entered at once, before
\* anything else happens; no listener runs without its signal, and those who
\* wait for the promise are resumed only after it settled
SignalsSynchronous ==
    \A k \in DOMAIN obs.log :
        LET e == obs.log[k]
        IN /\ e.ev \in {"inserted", "removed"} =>
                /\ \A m \in DOMAIN obs.log : obs.log[m].ev = "settled" => k < m
                /\ e.active =>
                        /\ k + 1 \in DOMAIN obs.log
                        /\ obs.log[k + 1] = [e EXCEPT !.ev = ListenerOf(e.ev)]
           /\ e.ev \in {"onInjected", "onEjected"} =>
                /\ k > 1
                /\ obs.log[k - 1].active
                /\ e = [obs.log[k - 1] EXCEPT !.ev = ListenerOf(obs.log[k - 1].ev)]
           /\ e.ev = "settled" =>
                \A m \in DOMAIN obs.log : m > k => obs.log[m].ev = "resumed"
           /\ e.ev = "resumed" =>
                \E m \in DOMAIN obs.log : m < k /\ obs.log[m].ev = "settled"

\* an update was answered while the view listened: the replacement was
\* signalled and onInjected entered before the promise settled
SignalsSynchronousReached ==
    /\ Len(obs.log) = 3
    /\ obs.log[1].ev = "inserted" /\ obs.log[1].active
    /\ obs.log[2].ev = "onInjected"
    /\ obs.log[3].ev = "settled" /\ obs.log[3].active
    /\ view.items # <<>>

----------------------------------------------------------------------------
(* Pages: a PaginatedView of one post per page, of all posts by text or of  *)
(* the posts of one text by id, with page changes, loads from the cache,    *)
(* and creates, updates and deletes of posts                                *)

MaxPageNo == 1
MaxPageTasks == 2
MaxPageReqs == 2
MaxPageCalls == 3

PageNos == 0..MaxPageNo

InitPage ==
    /\ InitDB
    /\ view \in {NewPaginatedView({}, "text", 1),
                 NewPaginatedView({<<"text", 1>>}, "id", 1)}
    /\ cfg = [Config(MaxPageTasks, MaxPageReqs, MaxPageCalls, TRUE)
                EXCEPT !.signals = TRUE]

NextPage ==
    \/ \E page \in PageNos : SetPage(page, TRUE)
    \/ Load(TRUE)
    \/ Create("Posts")
    \/ \E pk \in PostPks : Update("Posts", pk)
    \/ \E pk \in PostPks : Delete("Posts", pk)
    \/ \E r \in requests :
            /\ r.op # "find"
            /\ \E data \in Answers(r, SetRaws(r.coll)) : Respond(r, data)
    \/ \E r \in requests :
            \E all \in Matching(r, SetRaws(r.coll)) : RespondPage(r, all)
    \/ \E r \in requests : Fail(r)
    \/ RunReady

SpecPage == InitPage /\ [][NextPage]_vars

\* the signals of the step that reached the view, as positions of its record
Heard(ev) == {k \in DOMAIN obs'.log : obs'.log[k].ev = ev /\ obs'.log[k].active}

\* the snapshot that the item signalled at k replaced, if any
Replaced(k) == UIGet(index[ViewColl], obs'.log[k].item.pk)

\* no load of the view settled in the step
NoLoadSettled ==
    \A i \in DOMAIN tasks' : tasks'[i].kind = "load" => InFlight(tasks'[i])

\* C22: in a step in which no load settles, the total that a load has set
\* grows by one for each inserted signal the view hears whose entity matches
\* the query, and shrinks by one for each matching previous snapshot of such
\* a signal and for each matching entity of a removed signal it hears
TotalCounts ==
    [][(view.kind = "PaginatedView" /\ view.total # NoTotal /\ NoLoadSettled) =>
            /\ view'.total # NoTotal
            /\ view'.total[1] = view.total[1]
                + Cardinality({k \in Heard("inserted") :
                                   CriteriaTest(obs'.log[k].item, view.query)})
                - Cardinality({k \in Heard("inserted") :
                                   /\ Replaced(k) # NoEnt
                                   /\ CriteriaTest(Replaced(k), view.query)})
                - Cardinality({k \in Heard("removed") :
                                   CriteriaTest(obs'.log[k].item, view.query)})]_vars

\* a create was answered with a matching post while the view listened, and
\* the total that the load had set has grown
TotalCountsReached ==
    /\ view.kind = "PaginatedView" /\ view.total # NoTotal /\ view.total[1] > 1
    /\ view.insertedActive
    /\ \E k \in DOMAIN obs.log : obs.log[k].ev = "onInjected"
    /\ \A i \in DOMAIN tasks : tasks[i].kind # "load"

\* the page without the snapshot that the item signalled at k replaces
PageWithout(k) == SelectSeq(view.items, LAMBDA e : e.pk # obs'.log[k].item.pk)

\* the item signalled at k sorts behind the page's last item while further
\* pages follow, or before its first item while pages precede
OffPage(k) ==
    LET item == obs'.log[k].item
        page == PageWithout(k)
    IN \/ /\ fieldComparator(view.orderBy, item, page[Len(page)]) > 0
          /\ (view.currentPage + 1) * view.pageSize < view'.total[1]
       \/ /\ fieldComparator(view.orderBy, item, page[1]) < 0
          /\ view.currentPage > 0

\* C21: when a loaded PaginatedView hears one inserted signal whose entity
\* matches the query, and its page is not empty, the entity is in items
\* after the step unless it sorts behind the last item of a page that is
\* not the last, or before the first item of a page that is not the first
PageBoundary ==
    [][\A k \in DOMAIN obs'.log :
            (/\ view.kind = "PaginatedView" /\ view.loaded
             /\ NoLoadSettled
             /\ Heard("inserted") = {k} /\ Heard("removed") = {}
             /\ CriteriaTest(obs'.log[k].item, view.query)
             /\ PageWithout(k) # <<>>) =>
                ((\E j \in DOMAIN view'.items : view'.items[j] = obs'.log[k].item)
                    <=> ~OffPage(k))]_vars

(* Stale pages: a PaginatedView of two posts per page whose load can fail   *)
(* after the answers to updates and deletes went unheard                    *)
MaxStaleCalls == 4
StalePageSize == 2
InitStale ==
    /\ InitDB
    /\ view = NewPaginatedView({}, "text", StalePageSize)
    /\ cfg = [Config(MaxPageTasks, MaxPageReqs, MaxStaleCalls, TRUE) EXCEPT !.signals = TRUE]
SpecStale == InitStale /\ [][NextPage]_vars

(* Dispose: a CollectionView of all posts or of the posts of one text that  *)
(* is loaded, disposed of at any moment, and loaded again, with creates,    *)
(* updates and deletes of posts                                             *)
MaxDisposeTasks == 2
MaxDisposeReqs == 2
MaxDisposeCalls == 3
InitDispose ==
    /\ InitDB
    /\ view \in {NewView({}, "text", FALSE, FALSE),
                 NewView({<<"text", 1>>}, "text", FALSE, FALSE)}
    /\ cfg = [Config(MaxDisposeTasks, MaxDisposeReqs, MaxDisposeCalls, TRUE)
                EXCEPT !.signals = TRUE]
NextDispose ==
    \/ Dispose
    \/ \E fromCache \in BOOLEAN : Load(fromCache)
    \/ Create("Posts")
    \/ \E pk \in PostPks : Update("Posts", pk)
    \/ \E pk \in PostPks : Delete("Posts", pk)
    \/ \E r \in requests : \E data \in Answers(r, SetRaws(r.coll)) : Respond(r, data)
    \/ \E r \in requests : Fail(r)
    \/ RunReady
SpecDispose == InitDispose /\ [][NextDispose]_vars
ViewPromisePending ==
    \E i \in DOMAIN tasks : tasks[i].kind \in {"load", "addItem"} /\ InFlight(tasks[i])
\* C23: once dispose was called, no inserted or removed signal the collection
\* dispatches reaches a listener of the view, also after a load that settled
\* later set both bindings active again; and a step that starts with no load
\* and no item hydration of the view pending leaves items and _pks as they are
DisposedUnheard ==
    [][view.disposed =>
        /\ \A k \in DOMAIN obs'.log :
              /\ obs'.log[k].ev \notin {"onInjected", "onEjected"}
              /\ obs'.log[k].ev \in {"inserted", "removed"} => ~obs'.log[k].active
        /\ ~ViewPromisePending => view'.items = view.items /\ view'.pks = view.pks]_vars
DisposedUnheardReached ==
    /\ view.disposed /\ view.loaded
    /\ view.insertedActive /\ view.removedActive
    /\ ~ViewPromisePending
    /\ \E k \in DOMAIN obs.log :
          /\ obs.log[k].ev = "inserted"
          /\ CriteriaTest(obs.log[k].item, view.query)
          /\ \E j \in DOMAIN view.items : /\ view.items[j].pk = obs.log[k].item.pk
                                          /\ view.items[j] # obs.log[k].item

(* Relations: fetches of posts that ask for their authors ({author: true}), *)
(* with deletes of users; the Data Source answers a findAll of users with   *)
(* every user it was asked for                                              *)
MaxRelateTasks == 2
MaxRelateReqs == 2
MaxRelateCalls == 3
RelateRaws(c) == {x \in Raws(c) : x.text \in {Null, 1}}
RelateAnswers(r) ==
    {data \in Answers(r, RelateRaws(r.coll)) :
        r.coll = "Users" /\ r.op = "findAll" => Len(data) = Cardinality(r.pks)}
InitRelate ==
    /\ InitDB
    /\ view = NoView
    /\ cfg = Config(MaxRelateTasks, MaxRelateReqs, MaxRelateCalls, TRUE)
NextRelate ==
    \/ \E pk \in PostPks : FetchOne("Posts", pk, FALSE, TRUE)
    \/ \E n \in PostPks : FetchAll("Posts", UpTo(n), FALSE, TRUE)
    \/ Fetch("Posts", Param({}, "id", Undef), FALSE, TRUE)
    \/ \E pk \in UserPks : Delete("Users", pk)
    \/ \E r \in requests : \E data \in RelateAnswers(r) : Respond(r, data)
    \/ \E r \in requests : Fail(r)
    \/ RunReady
SpecRelate == InitRelate /\ [][NextRelate]_vars
Hydrated(t) ==
    /\ t.kind \in {"fetchOne", "fetch", "fetchAll"}
    /\ t.mask
    /\ t.stage = "ok"
AuthorsCached(t) ==
    \A k \in DOMAIN t.items :
        (t.items[k] # NoEnt /\ t.items[k].author_id # Null)
            => UIHas(index["Users"], t.items[k].author_id)
MaxDeleteTasks == 1
MaxDeleteReqs == 2
DeleteParams == {Param({}, "", Undef), Param({<<"text", 1>>}, "", Undef)}
DeleteRaws(c) == {x \in Raws(c) : x.author_id # Null}
InitDelete ==
    /\ InitDB
    /\ view = NoView
    /\ cfg = [Config(MaxDeleteTasks, MaxDeleteReqs, 0, TRUE) EXCEPT !.signals = TRUE]
NextDelete ==
    \/ \E params \in DeleteParams : Fetch("Posts", params, FALSE, FALSE)
    \/ \E pk \in PostPks : Update("Posts", pk)
    \/ \E pk \in PostPks : Delete("Posts", pk)
    \/ \E r \in requests : \E data \in Answers(r, DeleteRaws(r.coll)) : Respond(r, data)
    \/ \E r \in requests : Fail(r)
    \/ RunReady
SpecDelete == InitDelete /\ [][NextDelete]_vars
Signals == {k \in DOMAIN obs'.log : obs'.log[k].ev \in {"inserted", "removed"}}
CollectionUnchanged ==
    /\ index' = index /\ indexes' = indexes /\ queries' = queries
    /\ Signals = {}
SettledOk == \E k \in DOMAIN obs'.log : obs'.log[k].ev = "settled" /\ obs'.log[k].active
DeleteSucceeded(r) ==
    LET c == r.coll
        cacheItem == UIGet(index[c], r.pk)
    IN /\ ~UIHas(index'[c], r.pk)
       /\ \A x \in DOMAIN index[c].items : x # r.pk => UIGet(index'[c], x) = UIGet(index[c], x)
       /\ \A f \in DOMAIN indexes'[c] : \A fk \in DOMAIN indexes'[c][f] :
              ~UIHas(indexes'[c][f][fk], r.pk)
       /\ DOMAIN queries'[c] = {q \in DOMAIN queries[c] : ~UIHas(queries[c][q].items, r.pk)}
       /\ \A q \in DOMAIN queries'[c] : queries'[c][q] = queries[c][q]
       /\ IF cacheItem = NoEnt THEN Signals = {}
          ELSE /\ Cardinality(Signals) = 1
               /\ \A k \in Signals : obs'.log[k].ev = "removed" /\ obs'.log[k].item = cacheItem
\* C25: the call of delete(pk) changes neither the index, the secondary
\* indexes nor the cached queries and fires no signal; when source.delete
\* resolves, pk leaves the index and every bucket, exactly the cached queries
\* whose items held pk are deleted, and removed fires once, with the cached
\* entity (not at all when none was cached); when source.delete rejects, the
\* collection is unchanged and no signal fires
DeleteAfterSource ==
    [][/\ \A r \in requests' \ requests : r.op = "delete" => CollectionUnchanged
       /\ \A r \in requests \ requests' :
              r.op = "delete" => IF SettledOk THEN DeleteSucceeded(r)
                                 ELSE CollectionUnchanged]_vars
DeleteAfterSourceReached ==
    \E k \in DOMAIN obs.log :
        /\ obs.log[k].ev = "removed"
        /\ ~UIHas(index["Posts"], obs.log[k].item.pk)
        /\ UILength(index["Posts"]) > 0
        /\ DOMAIN queries["Posts"] # {}
        /\ \E fk \in DOMAIN indexes["Posts"]["author_id"] : fk # obs.log[k].item.author_id

(* Wiring: a DB of up to three collections created in any order.  Each may  *)
(* declare the relation x, to itself or to another collection, with or      *)
(* without a back reference, and the many-relation y with the foreign key   *)
(* left to its default                                                      *)
MaxWireColls == 3
WireNames == {<<"A", "B", "C", "D">>[i] : i \in 1..MaxWireColls}
NoRelation ==
    [field |-> "", collection |-> "", backRef |-> Absent, foreignKey |-> Absent, many |-> FALSE]
WireX(owner) ==
    {[NoRelation EXCEPT !.field = "x", !.collection = t, !.backRef = b, !.foreignKey = "ref"] :
        t \in WireNames, b \in {Absent, "x_of_" \o owner}}
WireY(owner) ==
    {[NoRelation EXCEPT !.field = "y", !.collection = t, !.many = TRUE] : t \in WireNames}
WireConfigs(owner) ==
    {<<>>} \cup {<<x>> : x \in WireX(owner)} \cup {<<y>> : y \in WireY(owner)}
           \cup {<<x, y>> : x \in WireX(owner), y \in WireY(owner)}
InitWire ==
    /\ InitCollections
    /\ view = NoView
    /\ cfg = Config(0, 0, 0, FALSE)
    /\ pure = NoCall
    /\ \E config \in [WireNames -> UNION {WireConfigs(n) : n \in WireNames}] :
          /\ \A n \in WireNames : config[n] \in WireConfigs(n)
          /\ db = NewDB(config)
NextWire == \E name \in WireNames : CreateCollection(name)
SpecWire == InitWire /\ [][NextWire]_vars
Declared(owner) == {db.config[owner][k] : k \in DOMAIN db.config[owner]}
Pending(owner, rel) ==
    \E k \in DOMAIN db.bindings : db.bindings[k] = [owner |-> owner, rel |-> rel]
Registered(owner, rel) ==
    LET foreignKey == IF rel.many THEN "y_ids" ELSE "ref"
    IN /\ rel.field \in DOMAIN db.relations[owner]
       /\ db.relations[owner][rel.field] = [rel EXCEPT !.foreignKey = foreignKey]
       /\ foreignKey \in DOMAIN db.foreignKeys[owner]
       /\ db.foreignKeys[owner][foreignKey] = rel.field
       /\ rel.backRef # Absent =>
             /\ rel.backRef \in DOMAIN db.backRefs[rel.collection]
             /\ db.backRefs[rel.collection][rel.backRef] =
                    [collection |-> owner, foreignKey |-> foreignKey]
             /\ foreignKey \in db.indexed[owner]
       /\ MapGet(db.wired, <<owner, rel.field>>) = 1
       /\ ~Pending(owner, rel)
Deferred(owner, rel) ==
    /\ rel.field \notin DOMAIN db.relations[owner]
    /\ MapGet(db.wired, <<owner, rel.field>>) = 0
    /\ Cardinality({k \in DOMAIN db.bindings :
                        db.bindings[k] = [owner |-> owner, rel |-> rel]}) = 1
\* C26: whatever the order of creation, no createCollection throws; every
\* relation declared by a created collection whose target exists is in
\* relations and foreignKeys, its back reference is in backRefs of the target,
\* and addRelation ran exactly once for it; a relation whose target does not
\* exist yet is not registered and waits on collectionCreated; nothing else
\* is registered
RelationsWired ==
    /\ ~db.err
    /\ \A owner \in db.collections : \A rel \in Declared(owner) :
          IF rel.collection \in db.collections THEN Registered(owner, rel)
          ELSE Deferred(owner, rel)
    /\ \A owner \in WireNames :
          /\ DOMAIN db.relations[owner] \subseteq
                {rel.field : rel \in {r \in Declared(owner) : owner \in db.collections}}
          /\ \A b \in DOMAIN db.backRefs[owner] :
                \E o \in db.collections : \E rel \in Declared(o) :
                    rel.collection = owner /\ rel.backRef = b
RelationsWiredReached ==
    /\ db.collections = WireNames
    /\ \E owner \in WireNames : \E rel \in Declared(owner) :
          rel.collection = owner /\ rel.backRef # Absent /\ Registered(owner, rel)
    /\ \E owner \in WireNames : \E rel \in Declared(owner) :
          rel.collection # owner /\ rel.backRef # Absent /\ Registered(owner, rel)
    /\ \E o1 \in WireNames, o2 \in WireNames : o1 # o2 /\
          \E r1 \in Declared(o1), r2 \in Declared(o2) :
              r1.collection = o2 /\ r2.collection = o1

(* Ordering: comparator(expr)(a, b) for the expressions text, text+ and     *)
(* text- on two objects whose text is a number, a letter, or absent         *)
MaxOrderNum == 2
OrderValues == (1..MaxOrderNum) \cup {Str(65), Str(97), Str(98)}
OrderObjects ==
    {[id |-> i] : i \in 1..2} \cup {[id |-> i, text |-> v] : i \in 1..2, v \in OrderValues}
OrderCalls == {"text", "text+", "text-"}
InitOrder ==
    /\ InitCollections
    /\ view = NoView
    /\ cfg = Config(0, 0, 0, FALSE)
    /\ db = NoDB
    /\ \E a \in OrderObjects, b \in OrderObjects :
          pure = [NoCall EXCEPT !.fn = "comparator", !.args = <<a, b>>, !.ret = EmptyMap]
\* Ordering.comparator(ordering)(a, b) returns
Compare(ordering) ==
    /\ pure.fn = "comparator"
    /\ ordering \notin DOMAIN pure.ret
    /\ pure' = [pure EXCEPT !.ret = MapSet(@, ordering,
                                          comparator(ordering, pure.args[1], pure.args[2])),
                            !.returned = TRUE]
    /\ UNCHANGED <<index, indexes, queries, pendingRequests, pendingItemRequests,
                   requests, tasks, view, obs, cfg, db>>
NextOrder == \E ordering \in OrderCalls : Compare(ordering)
SpecOrder == InitOrder /\ [][NextOrder]_vars
\* C27: comparator("text+")(a, b) is the negation of comparator("text-")(a, b),
\* whether the text of a and of b is a number, a string, or absent
DescendingNegates ==
    ({"text+", "text-"} \subseteq DOMAIN pure.ret) =>
        pure.ret["text+"] = 0 - pure.ret["text-"]

(* Criteria: Criteria.test(what, criteria) on a primitive with one or two   *)
(* operator entries, and on an object with entries for its fields           *)
MaxTestNum == 2
TestPrims == {Undef, Null} \cup (1..MaxTestNum)
TestOps == {[key |-> k, value |-> Prim(v)] : k \in {"$eq", "$ne", "$lt", "$gte"}, v \in TestPrims}
TestObjects == {[id |-> 1]} \cup {[id |-> 1, text |-> v] : v \in TestPrims}
TestFields ==
    {[key |-> "text", value |-> Prim(v)] : v \in TestPrims}
        \cup {[key |-> "text", value |-> Obj(<<e>>)] : e \in TestOps}
        \cup {[key |-> "text", value |-> Obj(<<[key |-> "$not", value |-> Obj(<<e>>)]>>)] :
                 e \in TestOps}
TestOpCriteria == {<<e>> : e \in TestOps} \cup {<<e1, e2>> : e1 \in TestOps, e2 \in TestOps}
TestFieldCriteria ==
    {<<e>> : e \in TestFields}
        \cup {<<e, [key |-> "id", value |-> Prim(v)]>> : e \in TestFields, v \in {Undef, 1}}
InitTest ==
    /\ InitCollections
    /\ view = NoView
    /\ cfg = Config(0, 0, 0, FALSE)
    /\ db = NoDB
    /\ \/ \E what \in TestPrims, criteria \in TestOpCriteria :
              pure = [NoCall EXCEPT !.fn = "test", !.args = <<what, criteria>>]
       \/ \E what \in TestObjects, criteria \in TestFieldCriteria :
              pure = [NoCall EXCEPT !.fn = "test", !.args = <<what, criteria>>]
\* Criteria.test(what, criteria) returns
Test ==
    /\ pure.fn = "test"
    /\ ~pure.returned
    /\ pure' = [pure EXCEPT !.returned = TRUE,
                            !.ret = test(pure.args[1], pure.args[2])]
    /\ UNCHANGED <<index, indexes, queries, pendingRequests, pendingItemRequests,
                   requests, tasks, view, obs, cfg, db>>
NextTest == Test
SpecTest == InitTest /\ [][NextTest]_vars
\* the criteria without its entries whose argument is undefined, nested ones
\* included
RECURSIVE Defined(_)
Defined(criteria) ==
    IF criteria = <<>> THEN <<>>
    ELSE LET e == criteria[1]
         IN IF ~isObject(e.value)
            THEN (IF e.value.primitive = Undef THEN <<>> ELSE <<e>>) \o Defined(Tail(criteria))
            ELSE <<[e EXCEPT !.value.criteria = Defined(e.value.criteria)]>>
                    \o Defined(Tail(criteria))
\* the one entry of a one-entry criteria with the key path keys, if it is one
OnlyEntry(criteria, key, v) == criteria = <<[key |-> key, value |-> Prim(v)]>>
\* C28: an entry whose argument is undefined does not affect the result: test
\* returns what it returns for the criteria without such entries, so
\* test(v, {$eq: undefined}) is true for every v; an argument of null is
\* compared: test(v, {$eq: null}) is true exactly when v is null, and
\* test(o, {text: null}) exactly when o.text is null
UndefinedSkipped ==
    (pure.fn = "test" /\ pure.returned) =>
        LET what == pure.args[1]
            criteria == pure.args[2]
        IN /\ pure.ret = test(what, Defined(criteria))
           /\ (\E key \in {"$eq", "text"} : OnlyEntry(criteria, key, Undef)) => pure.ret
           /\ OnlyEntry(criteria, "$eq", Null) => (pure.ret <=> what = Null)
           /\ OnlyEntry(criteria, "text", Null) =>
                  (pure.ret <=> ("text" \in DOMAIN what /\ what.text = Null))
UndefinedSkippedReached ==
    /\ pure.fn = "test" /\ pure.returned
    /\ pure.args[1] = Null
    /\ pure.args[2] = <<[key |-> "$ne", value |-> Prim(Undef)],
                        [key |-> "$eq", value |-> Prim(Null)]>>
    /\ pure.ret

(* Unique index: one UniqueIndex, mutable or frozen, to which items are     *)
(* added and from which pks are removed.  Its pks are the numbers 1, 2 and  *)
(* the string '1', or the strings 'A', 'a' and 'b'                          *)
MaxIndexOps == 4
MaxIndexRef == 2
IndexPks == {{1, 2, Str(49)}, {Str(65), Str(97), Str(98)}}
InitIndex ==
    /\ InitCollections
    /\ view = NoView
    /\ cfg = Config(0, 0, 0, FALSE)
    /\ db = NoDB
    /\ \E pks \in IndexPks, mutable \in BOOLEAN :
          pure = [NoCall EXCEPT !.fn = "UniqueIndex", !.args = [pks |-> pks, ops |-> 0],
                                !.ret = UniqueIndex(mutable)]
Applied(ui) ==
    /\ pure.fn = "UniqueIndex"
    /\ pure.args.ops < MaxIndexOps
    /\ pure' = [pure EXCEPT !.args.ops = @ + 1, !.ret = ui]
    /\ UNCHANGED <<index, indexes, queries, pendingRequests, pendingItemRequests,
                   requests, tasks, view, obs, cfg, db>>
\* index = index.add(item)
IndexAdd(item) == Applied(indexAdd(pure.ret, item))
\* index = index.remove(pk)
IndexRemove(pk) == Applied(indexRemove(pure.ret, pk))
NextIndex ==
    \/ \E pk \in pure.args.pks, ref \in 1..MaxIndexRef : IndexAdd([pk |-> pk, ref |-> ref])
    \/ \E pk \in pure.args.pks : IndexRemove(pk)
SpecIndex == InitIndex /\ [][NextIndex]_vars
IndexCoherent(ui) ==
    /\ \A i, j \in DOMAIN ui.arr :
          i # j => toString(ui.arr[i].pk) # toString(ui.arr[j].pk)
    /\ Range(ui.arr) = {ui.items[k] : k \in DOMAIN ui.items}
    /\ \A k \in DOMAIN ui.items : toString(ui.items[k].pk) = k
    /\ \A i, j \in DOMAIN ui.arr : i < j => comparator("pk", ui.arr[i], ui.arr[j]) <= 0
\* C29: after every add and remove the index holds one entry per string of a
\* pk, its table and its sequence hold the same entities, and the sequence
\* ascends by pk; an add of an item whose pk string is present puts the item
\* in the place of the old entry and leaves every other entry as it was
IndexSound ==
    [][/\ IndexCoherent(pure'.ret)
       /\ \A pk \in pure.args.pks, ref \in 1..MaxIndexRef :
             (/\ pure'.ret = indexAdd(pure.ret, [pk |-> pk, ref |-> ref])
              /\ toString(pk) \in DOMAIN pure.ret.items) =>
                 /\ DOMAIN pure'.ret.items = DOMAIN pure.ret.items
                 /\ \A k \in DOMAIN pure.ret.items :
                       pure'.ret.items[k] = IF k = toString(pk) THEN [pk |-> pk, ref |-> ref]
                                            ELSE pure.ret.items[k]
                 /\ Len(pure'.ret.arr) = Len(pure.ret.arr)]_vars

(* Pending item requests: fetchOne and fetchAll of posts, with and without  *)
(* forceLoad and {author: true}, and fetchOne of the user they refer to     *)
MaxPendTasks == 2
MaxPendReqs == 2
MaxPendCalls == 3
PendSeqs == {<<pk>> : pk \in PostPks} \cup {UpTo(MaxPk)}
PendRaws(c) == {x \in Raws(c) : x.text \in {Null, 1} /\ x.author_id \in {Null, 1}}
InitPend ==
    /\ InitDB
    /\ view = NoView
    /\ cfg = Config(MaxPendTasks, MaxPendReqs, MaxPendCalls, TRUE)
NextPend ==
    \/ \E pk \in PostPks, forceLoad \in BOOLEAN, mask \in BOOLEAN :
            FetchOne("Posts", pk, forceLoad, mask)
    \/ \E pks \in PendSeqs, forceLoad \in BOOLEAN, mask \in BOOLEAN :
            FetchAll("Posts", pks, forceLoad, mask)
    \/ \E forceLoad \in BOOLEAN : FetchOne("Users", 1, forceLoad, FALSE)
    \/ \E r \in requests : \E data \in Answers(r, PendRaws(r.coll)) : Respond(r, data)
    \/ \E r \in requests : Fail(r)
    \/ RunReady
SpecPend == InitPend /\ [][NextPend]_vars
ItemRequests(reqs, c, pk) ==
    {r \in reqs : /\ r.coll = c
                  /\ \/ r.op = "findOne" /\ r.pk = pk
                     \/ r.op = "findAll" /\ pk \in r.pks}
\* what a fetchAll of pks has to load, and what it finds pending
Wanted(c, pks, forceLoad) == {pk \in Range(pks) : forceLoad \/ ~UIHas(index[c], pk)}
PendingOf(c, pks, forceLoad) ==
    {pk \in Wanted(c, pks, forceLoad) : pk \in DOMAIN pendingItemRequests[c]}
\* C30: for every collection and pk at most one findOne or findAll that asks
\* for the pk is in flight, and pendingItemRequests holds exactly that request
\* under the pk; a fetchAll issues at most one findAll, for exactly the pks it
\* was given that are not cached (all of them with forceLoad) and not pending,
\* and its promise waits for the requests pending for the others
OneItemRequest ==
    [][/\ \A c \in Colls : \A pk \in PksOf(c) :
             /\ Cardinality(ItemRequests(requests', c, pk)) <= 1
             /\ ItemRequests(requests', c, pk) =
                    IF pk \in DOMAIN pendingItemRequests'[c]
                    THEN {pendingItemRequests'[c][pk]} ELSE {}
       /\ \A pks \in PendSeqs, forceLoad \in BOOLEAN, mask \in BOOLEAN :
             FetchAll("Posts", pks, forceLoad, mask) =>
                LET new == requests' \ requests
                    toLoad == Wanted("Posts", pks, forceLoad) \ PendingOf("Posts", pks, forceLoad)
                    awaited == {pendingItemRequests["Posts"][pk] :
                                    pk \in PendingOf("Posts", pks, forceLoad)}
                IN /\ new = IF toLoad = {} THEN {}
                            ELSE {r \in requests' : /\ r.coll = "Posts" /\ r.op = "findAll"
                                                    /\ r.pks = toLoad}
                   /\ Cardinality(new) <= 1
                   /\ tasks'[Len(tasks')].kind = "fetchAll"
                   /\ tasks'[Len(tasks')].waits = awaited \cup new]_vars
OneItemRequestReached ==
    /\ \E r \in requests : r.op = "findAll" /\ r.coll = "Posts" /\ r.pks = {2}
    /\ \E r \in requests : r.op = "findOne" /\ r.coll = "Posts" /\ r.pk = 1 /\ r.forceLoad
    /\ UIHas(index["Posts"], 1)
    /\ \E i \in DOMAIN tasks : /\ tasks[i].kind = "fetchAll" /\ tasks[i].stage = "fetch"
                               /\ tasks[i].pks = UpTo(MaxPk)
                               /\ Cardinality(tasks[i].waits) = 2

\* the pks of collection c for which a step registers a pending item request
Registers(c) == {pk \in PksOf(c) : /\ pk \notin DOMAIN pendingItemRequests[c]
                                   /\ pk \in DOMAIN pendingItemRequests'[c]}
\* C31 as stated: whenever a step registers a pending item request for a pk,
\* the pk is not in the index of the collection
RegisteredUncached ==
    [][\A c \in Colls : \A pk \in Registers(c) : ~UIHas(index[c], pk)]_vars
\* C31: whenever a step registers a pending item request for a pk, the pk is
\* not in the index of the collection, or the request belongs to a call with
\* forceLoad; the entity may be in the index by the time the request settles
RegisteredUncachedUnlessForced ==
    [][\A c \in Colls : \A pk \in Registers(c) :
            \/ ~UIHas(index[c], pk) /\ ~UIHas(index'[c], pk)
            \/ pendingItemRequests'[c][pk].forceLoad]_vars
RegisteredUncachedReached ==
    /\ UIHas(index["Posts"], 1)
    /\ ~UIHas(index["Posts"], 2)
    /\ \E r \in requests :
          /\ r.op = "findAll" /\ r.coll = "Posts" /\ r.pks = {2} /\ ~r.forceLoad
          /\ pendingItemRequests["Posts"] = MapSet(EmptyMap, 2, r)
          /\ \E i \in DOMAIN tasks : /\ tasks[i].kind = "fetchAll"
                                     /\ tasks[i].pks = UpTo(MaxPk)
                                     /\ tasks[i].waits = {r}

(* Replacements: in the steps of the deletes, an answer of the Data Source  *)
(* that differs from the cached post replaces it                            *)
\* the cached entity that the insert of raw replaces, NoEnt when it replaces none
ReplacedBy(c, raw) ==
    IF UIHas(index[c], raw.id) /\ ~isEqual(UIGet(index[c], raw.id), raw)
    THEN UIGet(index[c], raw.id) ELSE NoEnt
\* the signals of the step about pk
SignalsAbout(pk) == {k \in Signals : obs'.log[k].item.pk = pk}
ReplacedOnce(c, raw) ==
    /\ Cardinality(SignalsAbout(raw.id)) = 1
    /\ \A k \in SignalsAbout(raw.id) :
          /\ obs'.log[k].ev = "inserted"
          /\ isEqual(obs'.log[k].item, raw)
          /\ obs'.log[k].item # ReplacedBy(c, raw)
          /\ obs'.log[k].previous = ReplacedBy(c, raw)
          /\ UIGet(index'[c], raw.id) = obs'.log[k].item
          /\ {e \in Range(index'[c].arr) : e.pk = raw.id} = {obs'.log[k].item}
          /\ Cardinality({i \in DOMAIN index'[c].arr : index'[c].arr[i].pk = raw.id}) = 1
\* C32: when a step puts another snapshot under the pk of a cached entity,
\* and whenever the Data Source answers an update with an item that is not
\* equal to the cached entity of its pk, the step dispatches exactly one
\* signal about the pk: inserted with the new snapshot and, as previous, the
\* snapshot that was cached; no removed is dispatched for it, and afterwards
\* the index holds the new snapshot, once, and not the previous one
ReplaceSignals ==
    [][/\ \A pk \in PostPks :
            /\ UIHas(index["Posts"], pk) /\ UIHas(index'["Posts"], pk)
            /\ UIGet(index'["Posts"], pk) # UIGet(index["Posts"], pk)
            => ReplacedOnce("Posts", UIGet(index'["Posts"], pk))
       /\ \A r \in requests \ requests' :
            r.op = "update" =>
                \A data \in Answers(r, DeleteRaws(r.coll)) :
                    ReplacedBy(r.coll, data[1]) # NoEnt /\ Respond(r, data)
                        => ReplacedOnce(r.coll, data[1])]_vars
ReplaceSignalsReached ==
    \E k \in DOMAIN obs.log :
        /\ obs.log[k].ev = "inserted"
        /\ obs.log[k].previous # NoEnt
        /\ obs.log[k].previous.text # obs.log[k].item.text
        /\ UIGet(index["Posts"], obs.log[k].item.pk) = obs.log[k].item
        /\ UILength(index["Posts"]) = 2
        /\ Len(obs.log) > 2

(* Limits: fetches of posts with and without limit and offset, with and     *)
(* without forceLoad, answered or rejected in any order                     *)
MaxLimitTasks == 2
MaxLimitReqs == 2
MaxLimitCalls == 3
MaxLimit == 1
LimitParams ==
    {[where |-> where, orderBy |-> "", limit |-> limit, offset |-> offset] :
        where \in {{}, {<<"text", 1>>}},
        limit \in {Undef} \cup (1..MaxLimit), offset \in {Undef} \cup (1..MaxLimit)}
LimitRaws(c) == {x \in Raws(c) : x.author_id = Null}
InitLimit ==
    /\ InitDB
    /\ view = NoView
    /\ cfg = Config(MaxLimitTasks, MaxLimitReqs, MaxLimitCalls, TRUE)
NextLimit ==
    \/ \E params \in LimitParams, forceLoad \in BOOLEAN :
            Fetch("Posts", params, forceLoad, FALSE)
    \/ \E r \in requests : \E data \in Answers(r, LimitRaws(r.coll)) : Respond(r, data)
    \/ \E r \in requests : Fail(r)
    \/ RunReady
SpecLimit == InitLimit /\ [][NextLimit]_vars
Limited(params) == params.limit # Undef \/ params.offset # Undef
\* the fetch just called waits for the find r
FetchAwaits(r, params) ==
    /\ r \in requests'
    /\ r.op = "find" /\ r.coll = "Posts" /\ r.params = params
    /\ pendingRequests'["Posts"][params] = r
    /\ tasks'[Len(tasks')].kind = "fetch"
    /\ tasks'[Len(tasks')].waits = {r}
    /\ ~tasks'[Len(tasks')].valued
\* C33: a fetch whose params have a limit or an offset is not resolved at
\* the call: it waits for a find with exactly its params, one it has just
\* sent or the one that was pending for these params, and the call leaves
\* the cached queries alone; when a find with a limit or an offset settles,
\* no cached query is created
LimitedUncached ==
    [][/\ \A params \in LimitParams, forceLoad \in BOOLEAN :
            Limited(params) /\ Fetch("Posts", params, forceLoad, FALSE) =>
                /\ queries' = queries
                /\ IF params \in DOMAIN pendingRequests["Posts"]
                   THEN /\ requests' = requests
                        /\ FetchAwaits(pendingRequests["Posts"][params], params)
                   ELSE \E r \in requests' \ requests :
                            /\ requests' = requests \cup {r}
                            /\ FetchAwaits(r, params)
       /\ \A r \in requests \ requests' :
            Limited(r.params) =>
                DOMAIN queries'[r.coll] \subseteq DOMAIN queries[r.coll]]_vars
LimitedUncachedReached ==
    /\ {} \in DOMAIN queries["Posts"]
    /\ UILength(queries["Posts"][{}].items) > 0
    /\ \E r \in requests :
          /\ Limited(r.params) /\ r.params.where = {} /\ ~r.forceLoad
          /\ Cardinality({i \in DOMAIN tasks : tasks[i].waits = {r}}) = 2

(* Coherence of a view at rest *)
\* no load and no hydration of the view is in flight or about to continue,
\* and both bindings are active
Quiescent ==
    /\ view.attached /\ ~view.disposed
    /\ ~view.loading
    /\ BindingsActive
    /\ DOMAIN view.itemLoadingPromises = {}
    /\ \A i \in DOMAIN tasks : tasks[i].kind \in {"load", "addItem"} => ~InFlight(tasks[i])
\* C34: when the view is at rest, every entry of view.items is the snapshot
\* that the index of the collection holds under its pk, and satisfies the
\* query of the view
ViewCoherent ==
    Quiescent =>
        \A k \in DOMAIN view.items :
            /\ view.items[k] = UIGet(index[ViewColl], view.items[k].pk)
            /\ CriteriaTest(view.items[k], view.query)

\* C35: view.items never holds two entries with the same pk
ItemsDistinct ==
    \A j, k \in DOMAIN view.items :
        j # k => view.items[j].pk # view.items[k].pk

(* The frame of a removal in the view *)
\* the pks of the entities the view is told to drop in the step: those of
\* the removed signals it hears and of the previous snapshots of the
\* inserted signals it hears
ToldToDrop ==
    {obs'.log[k].item.pk : k \in Heard("removed")}
        \cup {obs'.log[k].previous.pk :
                k \in {h \in Heard("inserted") : obs'.log[h].previous # NoEnt}}
\* C36: a step in which the view hears removed(e), or inserted with a
\* previous snapshot e, takes no entry with another pk out of view.items
EjectFrame ==
    [][ToldToDrop # {} =>
        \A k \in DOMAIN view.items :
            view.items[k].pk \notin ToldToDrop =>
                \E j \in DOMAIN view'.items : view'.items[j] = view.items[k]]_vars

(* filter against a scan of the index *)
\* where clauses on the indexed field author_id and on text: numbers, null,
\* undefined, and the string "1" where a number is stored
FilterArgs == Authors \cup {Undef, Str(49)}
FilterWheres ==
    {{}} \cup {{<<"author_id", a>>} : a \in FilterArgs}
         \cup {{<<"author_id", a>>, <<"text", t>>} : a \in FilterArgs, t \in Texts \cup {Undef}}
\* the entities of index that pass Criteria.test
Scan(c, where) == {e \in Range(index[c].arr) : CriteriaTest(e, where)}
FilterOf(c, where) == filter(World, c, [NoParams EXCEPT !.where = where])
\* C37: filter(params) returns exactly the entities of index that pass
\* Criteria.test with params.where, whether or not a bucket of a secondary
\* index is used, for every where clause
FilterIsScan ==
    \A where \in FilterWheres :
        /\ Range(FilterOf("Posts", where).arr) = Scan("Posts", where)
        /\ Len(FilterOf("Posts", where).arr) = Cardinality(Scan("Posts", where))

(* Inserts of an equal payload *)
\* raw is equal to the entity the index of c holds under its pk
EqualToCached(c, raw) ==
    UIHas(index[c], raw.id) /\ isEqual(UIGet(index[c], raw.id), raw)
\* nothing about pk changes in c and no signal about pk is dispatched
EntityUntouched(c, pk) ==
    /\ UIGet(index'[c], pk) = UIGet(index[c], pk)
    /\ \A f \in DOMAIN indexes[c] : \A fk \in DOMAIN indexes[c][f] :
          UIHas(indexes[c][f][fk], pk) =>
              /\ fk \in DOMAIN indexes'[c][f]
              /\ UIGet(indexes'[c][f][fk], pk) = UIGet(indexes[c][f][fk], pk)
    /\ \A q \in DOMAIN queries[c] :
          (q \in DOMAIN queries'[c] /\ UIHas(queries[c][q].items, pk)) =>
              UIGet(queries'[c][q].items, pk) = UIGet(queries[c][q].items, pk)
    /\ SignalsAbout(pk) = {}
\* C38: the insert of a payload equal to the cached entity of its pk leaves
\* index, every bucket of the secondary indexes and the cached queries as
\* they are and dispatches neither inserted nor removed: a step in which the
\* Data Source answers an update with such a payload changes nothing and
\* fires no signal, and an item of an answered find that is equal to the
\* cached entity leaves that entity where it was, with no signal about it
EqualInsertInert ==
    [][/\ \A r \in requests \ requests' :
            r.op = "update" =>
                \A data \in Answers(r, DeleteRaws(r.coll)) :
                    EqualToCached(r.coll, data[1]) /\ Respond(r, data)
                        => CollectionUnchanged
       /\ \A j \in DOMAIN tasks' :
            Resolved(tasks'[j]) =>
                \A x \in Range(tasks'[j].got) :
                    EqualToCached(tasks'[j].coll, x) => EntityUntouched(tasks'[j].coll, x.pk)]_vars
\* a find has just been answered with items that are all equal to cached
\* entities: the fetch resolved to the cached snapshots and no signal fired
EqualInsertInertReached ==
    /\ \E k \in DOMAIN obs.log : obs.log[k].ev = "settled" /\ obs.log[k].active
    /\ \A k \in DOMAIN obs.log : obs.log[k].ev \notin {"inserted", "removed"}
    /\ \E j \in DOMAIN tasks :
          /\ tasks[j].stage = "ok" /\ tasks[j].got # <<>>
          /\ tasks[j].origin \notin requests
          /\ \A x \in Range(tasks[j].got) : UIGet(index["Posts"], x.pk) = x

\* C39: a PaginatedView never shows more than pageSize items
PageBounded ==
    view.kind = "PaginatedView" => Len(view.items) <= view.pageSize

\* C40: while the view is attached and its first load has not completed, a
\* step in which the Data Source resolves a create, an update or a delete
\* fulfils the promise of that call (no listener throws into it) and leaves
\* the mutation applied: every entity signalled as inserted is the one the
\* index holds, a deleted pk is no longer in the index
MutationSafeBeforeLoad ==
    [][(view.attached /\ ~view.loaded) =>
          \A r \in requests \ requests' :
              (r.op \in {"create", "update", "delete"} /\ obs'.rejected = NoRequest) =>
                  /\ SettledOk
                  /\ r.op = "delete" => ~UIHas(index'[r.coll], r.pk)
                  /\ \A k \in Signals :
                        obs'.log[k].ev = "inserted" =>
                            UIGet(index'[r.coll], obs'.log[k].item.pk) = obs'.log[k].item]_vars

====
